---- MODULE Spec2Model ----
(***************************************************************************)
(* Listen Together live session hub (server/listentogether/hub.go and      *)
(* router.go).  One session ID is modelled; LiveSession objects created    *)
(* for it over time are numbered 1..MaxSess.  Every connection handler     *)
(* (Router.handleWebSocket, then Participant.ReadPump) is a process whose  *)
(* steps are the critical sections of the code: one step per region held  *)
(* under Hub.mu or LiveSession.mu, and one step per loop of non-blocking   *)
(* channel sends that follows a snapshot (a loop never blocks, so it is    *)
(* taken in one step; what may change between snapshot and loop is kept).  *)
(* Indices (currentIndex, queue entries, queue positions) are 0-based as   *)
(* in the Go code; the participant ID "" is written 0.                     *)
(***************************************************************************)
EXTENDS Integers, Sequences, FiniteSets, TLC

\* ---- bounds of the model
MaxConns == 3          \* connections (each joins at most once)
MaxJoin == 2           \* connections that run handleWebSocket from its start
MaxSess == 2           \* LiveSession objects ever created for the ID
MaxCmds == 2           \* commands read by all ReadPumps together
MaxTracks == 2         \* tracks of the persisted descriptor: 0..MaxTracks
MaxLen == 3            \* queue_add is cut off when len(tracks) = MaxLen
MaxPos == 2            \* largest position a seek / sync payload carries

\* ---- constants of the program
sendChannelSize == 16  \* hub.go:22

Conns == 1..MaxConns
Joiners == 1..MaxJoin
Sess == 1..MaxSess
Names == {"Guest"}
MediaIds == 1..MaxTracks
Positions == {-1, MaxPos}
SyncPositions == {1}
TrackLists == {[i \in 1..k |-> i] : k \in 0..MaxTracks}

VARIABLES
  sessions,      \* Hub.sessions[id]: the registered LiveSession, 0 = absent
  dbRow,         \* the persisted descriptor exists (ListenTogether.Load succeeds)
  dbTracks,      \* its tracks (media file IDs)
  nSess,         \* LiveSession objects allocated so far
  tracks, queue, currentIndex, position, isPlaying,   \* LiveSession fields,
  remoteHolder, participants,                          \* each [Sess -> ...]
  graceTimer,    \* ls.graceTimer: "nil", "pending", "fired"
  staleTimers,   \* armed timers no longer referenced by ls.graceTimer
  expiring,      \* timer callbacks that read count = 0 and have not removed yet
  ended,         \* handleEndSession has removed this session object
  Name, IsHost, JoinedAt,   \* Participant fields, [Conns -> ...]
  sendCh,        \* Participant.sendCh: the buffered messages
  chClosed,      \* close(p.sendCh) has run
  connClosed,    \* p.conn.Close() has run
  wp,            \* WritePump: "off", "on", "done"
  now,           \* the clock time.Now() reads
  pc,            \* position of each connection handler
  ref,           \* the *LiveSession the handler holds (participant.session)
  cmd,           \* the command being handled
  msg,           \* messages marshalled and not yet sent
  todo,          \* recipients snapshotted and not yet sent to
  lv,            \* Leave's locals remaining, newRemoteHolder
  ncmds,         \* commands read so far
  panicked,      \* a send on a closed channel has happened
  run,           \* the lock operations and sends of the call each goroutine is in
  view           \* the player state of each connection's client

hubVars == <<sessions, dbRow, dbTracks, nSess>>
playVars == <<tracks, queue, currentIndex, position, isPlaying>>
memberVars == <<remoteHolder, participants>>
timerVars == <<graceTimer, staleTimers, expiring>>
partVars == <<Name, IsHost, JoinedAt, now>>
chanVars == <<sendCh, chClosed>>
connVars == <<connClosed, wp>>
localVars == <<ref, cmd, msg, todo, lv>>
vars == <<hubVars, playVars, memberVars, timerVars, ended, partVars, chanVars,
          connVars, pc, localVars, ncmds, panicked, run, view>>

\* ---- helpers
Iota(n) == [i \in 1..n |-> i - 1]
\* removes the element after the one asked for
RemoveAfter(q, p) == [i \in 1..(Len(q) - 1) |-> IF i <= p + 1 THEN q[i] ELSE q[i + 1]]

RemoveAt(q, p) == [i \in 1..(Len(q) - 1) |-> IF i <= p THEN q[i] ELSE q[i + 1]]
InsertAt(q, p, x) ==
  [i \in 1..(Len(q) + 1) |-> IF i <= p THEN q[i] ELSE IF i = p + 1 THEN x ELSE q[i - 1]]

\* a goroutine that is in no call
NoRun == [path |-> <<>>, at |-> 0]

\* the player before its first state message (ListenTogetherPlayer.jsx:167-170)
NoView == [queue |-> <<>>, currentTrackIndex |-> 0, position |-> 0, isPlaying |-> FALSE]

NoCmd == [type |-> "", action |-> "", a |-> 0, b |-> 0, bad |-> FALSE, missing |-> FALSE]

\* ---- WSMessage (hub.go:26) with the payload structs flattened into one record
WSMessage(type, action) ==
  [type |-> type, action |-> action, id |-> 0, name |-> "", currentTrackIndex |-> 0,
   position |-> 0, isPlaying |-> FALSE, queue |-> <<>>, participants |-> {},
   message |-> ""]


\* SendWelcome / broadcastState: queueTracks (hub.go:630-635, 743-748)
\* TrackInfo.Duration (hub.go:39): track m lasts m seconds
Duration(m) == m

QueueTracks(s) ==
  [i \in 1..Len(queue[s]) |->
     IF queue[s][i] < Len(tracks[s]) THEN tracks[s][queue[s][i] + 1] ELSE 0]

StateMsg(s, action) ==
  [WSMessage("state", "") EXCEPT !.action = action,
     !.currentTrackIndex = currentIndex[s], !.position = position[s],
     !.isPlaying = isPlaying[s], !.queue = QueueTracks(s)]

ParticipantsMsg(s) ==
  [WSMessage("participants", "") EXCEPT !.participants = participants[s]]

RemoteMsg(s) ==
  [WSMessage("remote", "") EXCEPT !.id = remoteHolder[s],
     !.name = IF remoteHolder[s] \in participants[s] THEN Name[remoteHolder[s]] ELSE ""]

WelcomeMsg(p) == [WSMessage("welcome", "") EXCEPT !.id = p]

\* a request that names nobody
RemoteRequestedAnonymous(p) == WSMessage("remote_requested", "")

RemoteRequestedMsg(p) ==
  [WSMessage("remote_requested", "") EXCEPT !.id = p, !.name = Name[p]]

ErrorMsg(text) == [WSMessage("error", "") EXCEPT !.message = text]

EndMsg == WSMessage("error", "session_ended")

\* select { case p.sendCh <- msg: default: } on an open channel
\* a send that always enqueues
TrySendAlways(ch, m) == Append(ch, m)

TrySend(ch, m) == IF Len(ch) < sendChannelSize THEN Append(ch, m) ELSE ch

\* LiveSession.sendError (hub.go:726): the sender's own channel is open while
\* its ReadPump is dispatching
sendError(c, text) == sendCh' = [sendCh EXCEPT ![c] = TrySend(@, ErrorMsg(text))]

\* Join's rule without the host's priority
JoinRemoteIfNone(h, c, isHost) == IF h = 0 THEN c ELSE h

\* LiveSession.Join's rule for the remote (hub.go:202-204): h the holder so
\* far, c the joiner
JoinRemote(h, c, isHost) == IF h = 0 \/ isHost THEN c ELSE h

\* the holder once connections 1..n joined one after the other
RECURSIVE RemoteAfter(_, _)
RemoteAfter(host, n) ==
  IF n = 0 THEN 0 ELSE JoinRemote(RemoteAfter(host, n - 1), n, host[n])

\* a send queue nobody reads from: the client sent sendChannelSize unknown
\* actions while its WritePump was blocked in a write
Backlog == [i \in 1..sendChannelSize |-> ErrorMsg("unknown action: bogus")]

\* ---- initial states
\* what no connection has touched yet
Fresh ==
  /\ dbRow = TRUE
  /\ graceTimer = [s \in Sess |-> "nil"]
  /\ staleTimers = [s \in Sess |-> 0]
  /\ expiring = [s \in Sess |-> 0]
  /\ ended = [s \in Sess |-> FALSE]
  /\ Name = [c \in Conns |-> ""]
  /\ chClosed = [c \in Conns |-> FALSE]
  /\ connClosed = [c \in Conns |-> FALSE]
  /\ cmd = [c \in Conns |-> NoCmd]
  /\ msg = [c \in Conns |-> <<>>]
  /\ todo = [c \in Conns |-> {}]
  /\ lv = [c \in Conns |-> [remaining |-> 0, newRemoteHolder |-> 0]]
  /\ ncmds = 0
  /\ panicked = FALSE
  /\ run = [c \in Conns |-> NoRun]
  /\ view = [c \in Conns |-> NoView]

\* NewHub (hub.go:106): no live session; the descriptor is persisted with one
\* of the track lists T; the connections of J are about to run handleWebSocket
Start(J, T) ==
  /\ Fresh
  /\ sessions = 0
  /\ dbTracks \in T
  /\ nSess = 0
  /\ tracks = [s \in Sess |-> <<>>]
  /\ queue = [s \in Sess |-> <<>>]
  /\ currentIndex = [s \in Sess |-> 0]
  /\ position = [s \in Sess |-> 0]
  /\ isPlaying = [s \in Sess |-> FALSE]
  /\ remoteHolder = [s \in Sess |-> 0]
  /\ participants = [s \in Sess |-> {}]
  /\ IsHost = [c \in Conns |-> FALSE]
  /\ JoinedAt = [c \in Conns |-> 0]
  /\ sendCh = [c \in Conns |-> <<>>]
  /\ wp = [c \in Conns |-> "off"]
  /\ now = 0
  /\ pc = [c \in Conns |-> IF c \in J THEN "start" ELSE "idle"]
  /\ ref = [c \in Conns |-> 0]

Init == Start(Conns, TrackLists)

\* the session after connections 1..n ran handleWebSocket one after the other
\* (CreateSession of one of the track lists T, Join, the welcome and the two
\* broadcasts) and sit in ReadPump; each send queue holds one of Q; the
\* connections J are about to connect
EstablishedWith(n, T, Q, J) ==
  /\ Fresh
  /\ sessions = 1
  /\ dbTracks \in T
  /\ nSess = 1
  /\ tracks = [s \in Sess |-> IF s = 1 THEN dbTracks ELSE <<>>]
  /\ queue = [s \in Sess |-> IF s = 1 THEN Iota(Len(dbTracks)) ELSE <<>>]
  /\ currentIndex = [s \in Sess |-> 0]
  /\ position = [s \in Sess |-> 0]
  /\ isPlaying = [s \in Sess |-> FALSE]
  /\ IsHost \in [Conns -> BOOLEAN]
  /\ \A c \in Conns : c > n => ~IsHost[c]
  /\ remoteHolder = [s \in Sess |-> IF s = 1 THEN RemoteAfter(IsHost, n) ELSE 0]
  /\ participants = [s \in Sess |-> IF s = 1 THEN 1..n ELSE {}]
  /\ JoinedAt = [c \in Conns |-> IF c <= n THEN c - 1 ELSE 0]
  /\ now = n
  /\ sendCh \in [Conns -> {<<>>} \cup Q]
  /\ \A c \in Conns : c > n => sendCh[c] = <<>>
  /\ wp = [c \in Conns |-> IF c <= n THEN "on" ELSE "off"]
  /\ pc = [c \in Conns |->
             IF c <= n THEN "reading" ELSE IF c \in J THEN "start" ELSE "idle"]
  /\ ref = [c \in Conns |-> IF c <= n THEN 1 ELSE 0]

Established(n, T, Q) == EstablishedWith(n, T, Q, {})

Goto(c, l) == pc' = [pc EXCEPT ![c] = l]

\* ---- Hub
\* Hub.CreateSession (hub.go:115): idempotent on the ID, else a fresh object
\* a CreateSession that registers a new live session whatever is registered
CreateSessionAnew ==
  LET s == nSess + 1 IN
  /\ nSess < MaxSess
  /\ nSess' = s
  /\ sessions' = s
  /\ tracks' = [tracks EXCEPT ![s] = dbTracks]
  /\ queue' = [queue EXCEPT ![s] = Iota(Len(dbTracks))]
  /\ currentIndex' = [currentIndex EXCEPT ![s] = 0]
  /\ position' = [position EXCEPT ![s] = 0]
  /\ isPlaying' = [isPlaying EXCEPT ![s] = FALSE]
  /\ remoteHolder' = [remoteHolder EXCEPT ![s] = 0]
  /\ participants' = [participants EXCEPT ![s] = {}]

CreateSession ==
  IF sessions # 0
  THEN UNCHANGED <<sessions, nSess, playVars, memberVars>>
  ELSE LET s == nSess + 1 IN
       /\ nSess < MaxSess
       /\ nSess' = s
       /\ sessions' = s
       /\ tracks' = [tracks EXCEPT ![s] = dbTracks]
       /\ queue' = [queue EXCEPT ![s] = Iota(Len(dbTracks))]
       /\ currentIndex' = [currentIndex EXCEPT ![s] = 0]
       /\ position' = [position EXCEPT ![s] = 0]
       /\ isPlaying' = [isPlaying EXCEPT ![s] = FALSE]
       /\ remoteHolder' = [remoteHolder EXCEPT ![s] = 0]
       /\ participants' = [participants EXCEPT ![s] = {}]

\* Hub.removeSession (hub.go:167): delete by ID, whatever object is registered
removeSession == sessions' = 0

\* Router.handleSessionPage (router.go:229-237): Load, then CreateSession
handleSessionPage ==
  /\ dbRow
  /\ CreateSession
  /\ UNCHANGED <<dbRow, dbTracks, timerVars, ended, partVars, run, view, chanVars, connVars,
                 pc, localVars, ncmds, panicked>>

\* Router.deleteSession (router.go:190-209): the row is deleted, then the
\* live session is removed from the hub
deleteSession ==
  /\ dbRow
  /\ dbRow' = FALSE
  /\ removeSession
  /\ UNCHANGED <<dbTracks, nSess, playVars, memberVars, timerVars, ended,
                 partVars, run, view, chanVars, connVars, pc, localVars, ncmds, panicked>>

\* ---- Router.handleWebSocket
\* router.go:250: ls := rt.hub.GetSession(id)
wsGetSession(c) ==
  /\ pc[c] = "start"
  /\ IF sessions # 0
     THEN /\ ref' = [ref EXCEPT ![c] = sessions]
          /\ Goto(c, "join")
     ELSE /\ Goto(c, "create")
          /\ UNCHANGED ref
  /\ UNCHANGED <<hubVars, playVars, memberVars, timerVars, ended, partVars, run, view, chanVars,
                 connVars, cmd, msg, todo, lv, ncmds, panicked>>

\* router.go:253-258: Load from the store (404 when the row is gone), then
\* ls = rt.hub.CreateSession(session)
wsCreateSession(c) ==
  /\ pc[c] = "create"
  /\ IF dbRow
     THEN /\ CreateSession
          /\ ref' = [ref EXCEPT ![c] = sessions']
          /\ Goto(c, "join")
     ELSE /\ Goto(c, "gone")
          /\ UNCHANGED <<sessions, nSess, playVars, memberVars, ref>>
  /\ UNCHANGED <<dbRow, dbTracks, timerVars, ended, partVars, run, view, chanVars, connVars,
                 cmd, msg, todo, lv, ncmds, panicked>>

\* LiveSession.Join (hub.go:179), under ls.mu
Join(c) ==
  /\ pc[c] = "join"
  /\ LET s == ref[c] IN
     \E name \in Names, isHost \in BOOLEAN :
       /\ graceTimer' = [graceTimer EXCEPT ![s] = "nil"]
       /\ Name' = [Name EXCEPT ![c] = name]
       /\ IsHost' = [IsHost EXCEPT ![c] = isHost]
       /\ JoinedAt' = [JoinedAt EXCEPT ![c] = now]
       /\ now' = now + 1
       /\ participants' = [participants EXCEPT ![s] = @ \cup {c}]
       /\ remoteHolder' = [remoteHolder EXCEPT ![s] = JoinRemote(@, c, isHost)]
  /\ Goto(c, "welcome")
  /\ UNCHANGED <<hubVars, playVars, staleTimers, expiring, ended, chanVars, connVars,
                 localVars, ncmds, panicked, run, view>>

\* LiveSession.SendWelcome (hub.go:742-771): the snapshot under RLock
SendWelcome(c) ==
  /\ pc[c] = "welcome"
  /\ LET s == ref[c] IN
     msg' = [msg EXCEPT ![c] = <<WelcomeMsg(c), StateMsg(s, "welcome"),
                                  ParticipantsMsg(s), RemoteMsg(s)>>]
  /\ todo' = [todo EXCEPT ![c] = {c}]
  /\ Goto(c, "welcome_send")
  /\ UNCHANGED <<hubVars, playVars, memberVars, timerVars, ended, partVars, run, view, chanVars,
                 connVars, ref, cmd, lv, ncmds, panicked>>


\* ---- sending what a snapshot marshalled
HandshakeSends == {"welcome_send", "hs_bp_send", "hs_br_send"}
LeaveSends == {"lv_bp_send", "lv_br_send"}
CommandSends == {"cmd_bs_send", "cmd_br_send", "rr_send"}

\* where the handler continues once its send loop is done
AfterSend(c, l) ==
  CASE l = "welcome_send" -> "hs_bp"                \* router.go:273
    [] l = "hs_bp_send" -> "hs_br"                  \* router.go:274
    [] l = "hs_br_send" -> "reading"                \* router.go:277-278
    [] l \in CommandSends -> "reading"              \* back in ReadPump's loop
    [] l = "lv_bp_send" ->                          \* hub.go:248
         IF lv[c].newRemoteHolder # 0 THEN "lv_br" ELSE "gone"
    [] l = "lv_br_send" -> "gone"

\* the handler moves on; leaving handleWebSocket's broadcasts starts the
\* WritePump (router.go:277), leaving ReadPump closes the conn (hub.go:827)
Finish(c, l) ==
  /\ Goto(c, AfterSend(c, l))
  /\ cmd' = [cmd EXCEPT ![c] = NoCmd]
  /\ wp' = IF l = "hs_br_send" THEN [wp EXCEPT ![c] = "on"] ELSE wp
  /\ connClosed' = IF AfterSend(c, l) = "gone"
                   THEN [connClosed EXCEPT ![c] = TRUE] ELSE connClosed

\* a send on a closed channel panics.  In ReadPump's loop the deferred
\* function (hub.go:825) runs Leave; inside Leave, or in handleWebSocket
\* before ReadPump, nothing is deferred and the goroutine just unwinds.
Panic(c) ==
  /\ panicked' = TRUE
  /\ Goto(c, IF pc[c] \in CommandSends \cup {"end_send"} THEN "leave" ELSE "gone")
  /\ cmd' = [cmd EXCEPT ![c] = NoCmd]
  /\ msg' = [msg EXCEPT ![c] = <<>>]
  /\ todo' = [todo EXCEPT ![c] = {}]

\* the non-blocking sends of msgs, in order, to channel ch
RECURSIVE TrySendAll(_, _)
TrySendAll(ch, msgs) ==
  IF msgs = <<>> THEN ch ELSE TrySendAll(TrySend(ch, Head(msgs)), Tail(msgs))

\* the channels after msgs went to every participant of D
Deliver(D, msgs) ==
  [p \in Conns |-> IF p \in D THEN TrySendAll(sendCh[p], msgs) ELSE sendCh[p]]

\* the send loops at hub.go:655, 686, 717, the send at hub.go:446 and
\* SendWelcome's four selects (hub.go:781-820).  The recipients were ranged
\* out of a map, so a panic on a closed channel comes after any part of
\* the open ones was sent to.
Send(c) ==
  /\ pc[c] \in HandshakeSends \cup LeaveSends \cup CommandSends
  /\ IF \E p \in todo[c] : chClosed[p]
     THEN /\ \E D \in SUBSET {p \in todo[c] : ~chClosed[p]} :
               sendCh' = Deliver(D, msg[c])
          /\ Panic(c)
          /\ UNCHANGED connVars
     ELSE /\ sendCh' = Deliver(todo[c], msg[c])
          /\ msg' = [msg EXCEPT ![c] = <<>>]
          /\ todo' = [todo EXCEPT ![c] = {}]
          /\ panicked' = panicked
          /\ Finish(c, pc[c])
  /\ UNCHANGED <<hubVars, playVars, memberVars, timerVars, ended, partVars, run, view, chClosed,
                 ref, lv, ncmds>>

\* the snapshot half of a broadcast: recipients and message under RLock
Snapshot(c, m, sendLabel) ==
  /\ IF participants[ref[c]] = {}
     THEN /\ Finish(c, sendLabel)
          /\ UNCHANGED <<msg, todo>>
     ELSE /\ msg' = [msg EXCEPT ![c] = <<m>>]
          /\ todo' = [todo EXCEPT ![c] = participants[ref[c]]]
          /\ Goto(c, sendLabel)
          /\ UNCHANGED <<connVars, cmd>>
  /\ UNCHANGED <<hubVars, playVars, memberVars, timerVars, ended, partVars, run, view, chanVars,
                 ref, lv, ncmds, panicked>>

\* LiveSession.broadcastParticipants (hub.go:664-678)
broadcastParticipants(c) ==
  \E l \in {"hs_bp", "lv_bp"} :
    /\ pc[c] = l
    /\ Snapshot(c, ParticipantsMsg(ref[c]),
                IF l = "hs_bp" THEN "hs_bp_send" ELSE "lv_bp_send")

\* LiveSession.broadcastRemote (hub.go:695-706)
broadcastRemote(c) ==
  \E l \in {"hs_br", "lv_br", "cmd_br"} :
    /\ pc[c] = l
    /\ Snapshot(c, RemoteMsg(ref[c]),
                CASE l = "hs_br" -> "hs_br_send"
                  [] l = "lv_br" -> "lv_br_send"
                  [] l = "cmd_br" -> "cmd_br_send")

\* LiveSession.broadcastState (hub.go:628-647)
broadcastState(c) ==
  /\ pc[c] = "cmd_bs"
  /\ Snapshot(c, StateMsg(ref[c], cmd[c].action), "cmd_bs_send")

\* ---- leaving
\* findLongestConnected forgetting the remaining participants
findNobody(P) == {0}

\* findLongestConnected with the comparison turned round
findLatestConnected(P) ==
  IF P = {} THEN {0}
  ELSE {p \in P : \A q \in P : JoinedAt[p] >= JoinedAt[q]}

\* LiveSession.findLongestConnected (hub.go:255): the map is ranged over in an
\* unspecified order and an entry replaces the candidate only when strictly
\* earlier, so any participant of minimal JoinedAt can be returned
findLongestConnected(P) ==
  IF P = {} THEN {0}
  ELSE {p \in P : \A q \in P : JoinedAt[p] <= JoinedAt[q]}

\* ReadPump's ReadMessage fails (hub.go:838-841): the peer went away, the read
\* deadline passed or the conn was closed
ReadError(c) ==
  /\ pc[c] = "reading"
  /\ Goto(c, "leave")
  /\ UNCHANGED <<hubVars, playVars, memberVars, timerVars, ended, partVars, run, view, chanVars,
                 connVars, localVars, ncmds, panicked>>

\* a Leave that does not look the participant up before removing it
LeaveUnchecked(c) ==
  /\ pc[c] = "leave"
  /\ LET s == ref[c]
         rest == participants[s] \ {c}
     IN
     \E h \in (IF remoteHolder[s] = c THEN findLongestConnected(rest)
               ELSE {remoteHolder[s]}) :
       /\ chClosed' = [chClosed EXCEPT ![c] = TRUE]
       /\ participants' = [participants EXCEPT ![s] = rest]
       /\ remoteHolder' = [remoteHolder EXCEPT ![s] = h]
       /\ lv' = [lv EXCEPT ![c] = [remaining |-> Cardinality(rest),
                                   newRemoteHolder |-> h]]
       /\ Goto(c, IF rest = {} THEN "lv_arm" ELSE "lv_bp")
       /\ UNCHANGED connClosed
  /\ UNCHANGED <<hubVars, playVars, timerVars, ended, partVars, run, view, sendCh, wp, ref, cmd,
                 msg, todo, ncmds, panicked>>

\* LiveSession.Leave, first critical section (hub.go:211-230)
Leave(c) ==
  /\ pc[c] = "leave"
  /\ LET s == ref[c] IN
     IF c \notin participants[s]
     THEN /\ Goto(c, "gone")
          /\ connClosed' = [connClosed EXCEPT ![c] = TRUE]
          /\ UNCHANGED <<memberVars, chClosed, lv>>
     ELSE LET rest == participants[s] \ {c} IN
          \E h \in (IF remoteHolder[s] = c THEN findLongestConnected(rest)
                    ELSE {remoteHolder[s]}) :
            /\ chClosed' = [chClosed EXCEPT ![c] = TRUE]
            /\ participants' = [participants EXCEPT ![s] = rest]
            /\ remoteHolder' = [remoteHolder EXCEPT ![s] = h]
            /\ lv' = [lv EXCEPT ![c] = [remaining |-> Cardinality(rest),
                                        newRemoteHolder |-> h]]
            /\ Goto(c, IF rest = {} THEN "lv_arm" ELSE "lv_bp")
            /\ UNCHANGED connClosed
  /\ UNCHANGED <<hubVars, playVars, timerVars, ended, partVars, run, view, sendCh, wp, ref, cmd,
                 msg, todo, ncmds, panicked>>

\* Leave is called once more with the ID of a participant that has left
LeaveAgain(c) ==
  /\ pc[c] = "gone"
  /\ chClosed[c]
  /\ Goto(c, "leave")
  /\ UNCHANGED <<hubVars, playVars, memberVars, timerVars, ended, partVars, run, view, chanVars,
                 connVars, localVars, ncmds, panicked>>

\* a Leave that returns without arming the grace timer
LeaveForget(c) ==
  /\ pc[c] = "lv_arm"
  /\ Goto(c, "gone")
  /\ connClosed' = [connClosed EXCEPT ![c] = TRUE]
  /\ UNCHANGED <<hubVars, playVars, memberVars, timerVars, ended, partVars, run, view, chanVars,
                 wp, localVars, ncmds, panicked>>

\* Leave, remaining = 0: the grace timer is armed (hub.go:232-244); a timer
\* still pending in ls.graceTimer is overwritten, not stopped
LeaveArm(c) ==
  /\ pc[c] = "lv_arm"
  /\ LET s == ref[c] IN
     /\ staleTimers' = [staleTimers EXCEPT ![s] =
                          IF graceTimer[s] = "pending" THEN @ + 1 ELSE @]
     /\ graceTimer' = [graceTimer EXCEPT ![s] = "pending"]
  /\ Goto(c, "gone")
  /\ connClosed' = [connClosed EXCEPT ![c] = TRUE]
  /\ UNCHANGED <<hubVars, playVars, memberVars, expiring, ended, partVars, run, view, chanVars,
                 wp, localVars, ncmds, panicked>>

\* the grace timer's callback, its critical section (hub.go:236-238)
TimerFire(s) ==
  /\ \/ /\ graceTimer[s] = "pending"
        /\ graceTimer' = [graceTimer EXCEPT ![s] = "fired"]
        /\ UNCHANGED staleTimers
     \/ /\ staleTimers[s] > 0
        /\ staleTimers' = [staleTimers EXCEPT ![s] = @ - 1]
        /\ UNCHANGED graceTimer
  /\ expiring' = [expiring EXCEPT ![s] = IF participants[s] = {} THEN @ + 1 ELSE @]
  /\ UNCHANGED <<hubVars, playVars, memberVars, ended, partVars, run, view, chanVars, connVars,
                 pc, localVars, ncmds, panicked>>

\* the callback's removal (hub.go:239-242), after ls.mu was released
TimerRemove(s) ==
  /\ expiring[s] > 0
  /\ expiring' = [expiring EXCEPT ![s] = @ - 1]
  /\ removeSession
  /\ UNCHANGED <<dbRow, dbTracks, nSess, playVars, memberVars, graceTimer,
                 staleTimers, ended, partVars, run, view, chanVars, connVars, pc, localVars,
                 ncmds, panicked>>

\* ---- Participant.WritePump (hub.go:853)
\* a message is taken from sendCh and written
WritePumpWrite(c) ==
  /\ wp[c] = "on"
  /\ sendCh[c] # <<>>
  /\ sendCh' = [sendCh EXCEPT ![c] = Tail(@)]
  /\ UNCHANGED <<hubVars, playVars, memberVars, timerVars, ended, partVars, run, view, chClosed,
                 connVars, pc, localVars, ncmds, panicked>>

\* the pump returns: a write or ping failed, or the channel is closed and
\* drained; its deferred function closes the conn
WritePumpExit(c) ==
  /\ wp[c] = "on"
  /\ wp' = [wp EXCEPT ![c] = "done"]
  /\ connClosed' = [connClosed EXCEPT ![c] = TRUE]
  /\ UNCHANGED <<hubVars, playVars, memberVars, timerVars, ended, partVars, run, view, chanVars,
                 pc, localVars, ncmds, panicked>>

\* ---- LiveSession.HandleMessage: ReadPump read a command (hub.go:838-848)
Command(action, a, b, bad) ==
  [type |-> "command", action |-> action, a |-> a, b |-> b, bad |-> bad,
   missing |-> FALSE]

QueuePositions == -1..MaxLen
Targets == 0..MaxConns

Read(c, r) ==
  /\ pc[c] = "reading"
  /\ ~connClosed[c]
  /\ ncmds < MaxCmds
  /\ ncmds' = ncmds + 1

\* isRemoteHolder letting every participant through
isAnyone(c) == c \in participants[ref[c]]

\* LiveSession.isRemoteHolder (hub.go:302), under RLock
isRemoteHolder(c) == remoteHolder[ref[c]] = c

Enter(c, r, label) ==
  /\ cmd' = [cmd EXCEPT ![c] = r]
  /\ Goto(c, label)
  /\ UNCHANGED sendCh

\* the handler returns after sendError, before it took the write lock
Reject(c, text) ==
  /\ sendError(c, text)
  /\ UNCHANGED <<pc, cmd>>

\* the handler returns after sendError, having released the write lock
\* a rejection that returns without reporting the error
RejectSilently(c, text) ==
  /\ sendCh' = sendCh
  /\ Goto(c, "reading")
  /\ cmd' = [cmd EXCEPT ![c] = NoCmd]

RejectLocked(c, text) ==
  /\ sendError(c, text)
  /\ Goto(c, "reading")
  /\ cmd' = [cmd EXCEPT ![c] = NoCmd]

EntryFrame ==
  UNCHANGED <<hubVars, playVars, memberVars, timerVars, ended, partVars, run, view, chClosed,
              connVars, ref, lv, panicked>>

LockedFrame ==
  UNCHANGED <<hubVars, timerVars, ended, partVars, run, view, chClosed, connVars, ref, msg, todo,
              lv, ncmds, panicked>>

\* the head of every holder-only handler: the authority check under RLock,
\* then the payload is decoded
Authorised(c, r, denied, invalid, label) ==
  /\ Read(c, r)
  /\ IF ~isRemoteHolder(c) THEN Reject(c, denied)
     ELSE IF r.bad THEN Reject(c, invalid)
     ELSE Enter(c, r, label)
  /\ UNCHANGED <<msg, todo>>
  /\ EntryFrame

Locked(c, action) == pc[c] = "locked" /\ cmd[c].action = action

Broadcast(c) == Goto(c, "cmd_bs") /\ UNCHANGED <<cmd, sendCh>>

\* hub.go:308
handlePlay(c) ==
  \/ Authorised(c, Command("play", 0, 0, FALSE),
                "only the remote holder can control playback", "", "locked")
  \/ /\ Locked(c, "play")
     /\ isPlaying' = [isPlaying EXCEPT ![ref[c]] = TRUE]
     /\ Broadcast(c)
     /\ UNCHANGED <<tracks, queue, currentIndex, position, memberVars>>
     /\ LockedFrame

\* hub.go:319
handlePause(c) ==
  \/ Authorised(c, Command("pause", 0, 0, FALSE),
                "only the remote holder can control playback", "", "locked")
  \/ /\ Locked(c, "pause")
     /\ isPlaying' = [isPlaying EXCEPT ![ref[c]] = FALSE]
     /\ Broadcast(c)
     /\ UNCHANGED <<tracks, queue, currentIndex, position, memberVars>>
     /\ LockedFrame

\* hub.go:330
handleSeek(c) ==
  \/ \E pos \in Positions, bad \in BOOLEAN :
       Authorised(c, Command("seek", IF bad THEN 0 ELSE pos, 0, bad),
                  "only the remote holder can control playback",
                  "invalid seek payload", "locked")
  \/ /\ Locked(c, "seek")
     /\ position' = [position EXCEPT ![ref[c]] = cmd[c].a]
     /\ Broadcast(c)
     /\ UNCHANGED <<tracks, queue, currentIndex, isPlaying, memberVars>>
     /\ LockedFrame

\* a skip_next that steps off the end of the queue
handleSkipNextPastEnd(c) ==
  \/ Authorised(c, Command("skip_next", 0, 0, FALSE),
                "only the remote holder can control playback", "", "locked")
  \/ /\ Locked(c, "skip_next")
     /\ LET s == ref[c] IN
        IF currentIndex[s] < Len(queue[s])
        THEN /\ currentIndex' = [currentIndex EXCEPT ![s] = @ + 1]
             /\ position' = [position EXCEPT ![s] = 0]
        ELSE UNCHANGED <<currentIndex, position>>
     /\ Broadcast(c)
     /\ UNCHANGED <<tracks, queue, isPlaying, memberVars>>
     /\ LockedFrame

\* hub.go:348
handleSkipNext(c) ==
  \/ Authorised(c, Command("skip_next", 0, 0, FALSE),
                "only the remote holder can control playback", "", "locked")
  \/ /\ Locked(c, "skip_next")
     /\ LET s == ref[c] IN
        IF currentIndex[s] < Len(queue[s]) - 1
        THEN /\ currentIndex' = [currentIndex EXCEPT ![s] = @ + 1]
             /\ position' = [position EXCEPT ![s] = 0]
        ELSE UNCHANGED <<currentIndex, position>>
     /\ Broadcast(c)
     /\ UNCHANGED <<tracks, queue, isPlaying, memberVars>>
     /\ LockedFrame

\* hub.go:362
handleSkipPrev(c) ==
  \/ Authorised(c, Command("skip_prev", 0, 0, FALSE),
                "only the remote holder can control playback", "", "locked")
  \/ /\ Locked(c, "skip_prev")
     /\ LET s == ref[c] IN
        IF currentIndex[s] > 0
        THEN /\ currentIndex' = [currentIndex EXCEPT ![s] = @ - 1]
             /\ position' = [position EXCEPT ![s] = 0]
        ELSE UNCHANGED <<currentIndex, position>>
     /\ Broadcast(c)
     /\ UNCHANGED <<tracks, queue, isPlaying, memberVars>>
     /\ LockedFrame

\* a sync that broadcasts the state it stored
handleSyncLoud(c) ==
  \/ \E pos \in SyncPositions, idx \in QueuePositions, bad \in BOOLEAN :
       LET r == Command("sync", IF bad THEN 0 ELSE pos, IF bad THEN 0 ELSE idx, bad) IN
       /\ Read(c, r)
       /\ IF isRemoteHolder(c) /\ ~bad
          THEN Enter(c, r, "locked")
          ELSE UNCHANGED <<pc, cmd, sendCh>>
       /\ UNCHANGED <<msg, todo>>
       /\ EntryFrame
  \/ /\ Locked(c, "sync")
     /\ LET s == ref[c] IN
        /\ position' = [position EXCEPT ![s] = cmd[c].a]
        /\ currentIndex' = [currentIndex EXCEPT ![s] =
             IF cmd[c].b >= 0 /\ cmd[c].b < Len(queue[s]) THEN cmd[c].b ELSE @]
     /\ Broadcast(c)
     /\ UNCHANGED <<tracks, queue, isPlaying, memberVars>>
     /\ LockedFrame

\* hub.go:376: a sync of a non-holder, or one that does not decode, is dropped
\* without an error; nothing is broadcast
handleSync(c) ==
  \/ \E pos \in SyncPositions, idx \in QueuePositions, bad \in BOOLEAN :
       LET r == Command("sync", IF bad THEN 0 ELSE pos, IF bad THEN 0 ELSE idx, bad) IN
       /\ Read(c, r)
       /\ IF isRemoteHolder(c) /\ ~bad
          THEN Enter(c, r, "locked")
          ELSE UNCHANGED <<pc, cmd, sendCh>>
       /\ UNCHANGED <<msg, todo>>
       /\ EntryFrame
  \/ /\ Locked(c, "sync")
     /\ LET s == ref[c] IN
        /\ position' = [position EXCEPT ![s] = cmd[c].a]
        /\ currentIndex' = [currentIndex EXCEPT ![s] =
             IF cmd[c].b >= 0 /\ cmd[c].b < Len(queue[s]) THEN cmd[c].b ELSE @]
     /\ Goto(c, "reading")
     /\ cmd' = [cmd EXCEPT ![c] = NoCmd]
     /\ UNCHANGED <<tracks, queue, isPlaying, memberVars, sendCh>>
     /\ LockedFrame

\* the write-locked part shared by handlePassRemote and handleAcceptRemoteRequest
\* (hub.go:412-420, 464-472)
\* a transfer that does not look the target up among the participants
SetRemoteUnchecked(c) ==
  LET s == ref[c] IN
  /\ remoteHolder' = [remoteHolder EXCEPT ![s] = cmd[c].a]
  /\ Goto(c, "cmd_br")
  /\ UNCHANGED <<cmd, sendCh>>
  /\ UNCHANGED <<playVars, participants>>
  /\ LockedFrame

SetRemote(c) ==
  LET s == ref[c] IN
  /\ IF cmd[c].a \notin participants[s]
     THEN /\ RejectLocked(c, "participant not found")
          /\ UNCHANGED remoteHolder
     ELSE /\ remoteHolder' = [remoteHolder EXCEPT ![s] = cmd[c].a]
          /\ Goto(c, "cmd_br")
          /\ UNCHANGED <<cmd, sendCh>>
  /\ UNCHANGED <<playVars, participants>>
  /\ LockedFrame

\* hub.go:400
handlePassRemote(c) ==
  \/ \E t \in Targets, bad \in BOOLEAN :
       Authorised(c, Command("pass_remote", IF bad THEN 0 ELSE t, 0, bad),
                  "only the remote holder can pass the remote",
                  "invalid pass_remote payload", "locked")
  \/ /\ Locked(c, "pass_remote")
     /\ SetRemote(c)

\* hub.go:452
\* an accept that any participant may send
handleAcceptAnyone(c) ==
  \/ \E t \in Targets, bad \in BOOLEAN :
       LET r == Command("accept_remote_request", IF bad THEN 0 ELSE t, 0, bad) IN
       /\ Read(c, r)
       /\ IF bad THEN Reject(c, "invalid accept payload") ELSE Enter(c, r, "locked")
       /\ UNCHANGED <<msg, todo>>
       /\ EntryFrame
  \/ /\ Locked(c, "accept_remote_request")
     /\ SetRemote(c)

handleAcceptRemoteRequest(c) ==
  \/ \E t \in Targets, bad \in BOOLEAN :
       Authorised(c, Command("accept_remote_request", IF bad THEN 0 ELSE t, 0, bad),
                  "only the remote holder can accept requests",
                  "invalid accept payload", "locked")
  \/ /\ Locked(c, "accept_remote_request")
     /\ SetRemote(c)

\* hub.go:423: the holder is looked up under RLock; the send follows in Send
handleRequestRemote(c) ==
  LET s == ref[c] IN
  /\ Read(c, Command("request_remote", 0, 0, FALSE))
  /\ IF remoteHolder[s] \in participants[s]
     THEN /\ msg' = [msg EXCEPT ![c] = <<RemoteRequestedMsg(c)>>]
          /\ todo' = [todo EXCEPT ![c] = {remoteHolder[s]}]
          /\ Enter(c, Command("request_remote", 0, 0, FALSE), "rr_send")
     ELSE UNCHANGED <<pc, cmd, sendCh, msg, todo>>
  /\ EntryFrame

\* newIdx taken after the append
newIdxAfterAppend(s) == Len(tracks[s]) + 1

\* hub.go:508: newIdx := len(ls.tracks)
newIdx(s) == Len(tracks[s])

\* hub.go:475: media 0 stands for an ID the library does not hold
handleQueueAdd(c) ==
  \/ \E m \in {0} \cup MediaIds, bad \in BOOLEAN :
       LET r == Command("queue_add", IF bad THEN 0 ELSE m, 0, bad) IN
       /\ Read(c, r)
       /\ Len(tracks[ref[c]]) < MaxLen
       /\ IF ~isRemoteHolder(c)
          THEN Reject(c, "only the remote holder can modify the queue")
          ELSE IF bad THEN Reject(c, "invalid queue_add payload")
          ELSE IF m = 0 THEN Reject(c, "track not found")
          ELSE Enter(c, r, "locked")
       /\ UNCHANGED <<msg, todo>>
       /\ EntryFrame
  \/ /\ Locked(c, "queue_add")
     /\ LET s == ref[c] IN
        /\ tracks' = [tracks EXCEPT ![s] = Append(@, cmd[c].a)]
        /\ queue' = [queue EXCEPT ![s] = Append(@, newIdx(s))]
     /\ Broadcast(c)
     /\ UNCHANGED <<currentIndex, position, isPlaying, memberVars>>
     /\ LockedFrame

\* a queue_remove that drops the track from tracks as well
handleQueueRemoveTrack(c) ==
  \/ \E p \in QueuePositions, bad \in BOOLEAN :
       Authorised(c, Command("queue_remove", IF bad THEN 0 ELSE p, 0, bad),
                  "only the remote holder can modify the queue",
                  "invalid queue_remove payload", "locked")
  \/ /\ Locked(c, "queue_remove")
     /\ LET s == ref[c]
            p == cmd[c].a
        IN
        IF p < 0 \/ p >= Len(queue[s])
        THEN /\ RejectLocked(c, "invalid queue position")
             /\ UNCHANGED <<queue, currentIndex, tracks>>
        ELSE IF p = currentIndex[s]
        THEN /\ RejectLocked(c, "cannot remove the currently playing track")
             /\ UNCHANGED <<queue, currentIndex, tracks>>
        ELSE /\ queue' = [queue EXCEPT ![s] = RemoveAt(@, p)]
             /\ tracks' = [tracks EXCEPT ![s] = RemoveAt(@, queue[s][p + 1])]
             /\ currentIndex' = [currentIndex EXCEPT ![s] = IF p < @ THEN @ - 1 ELSE @]
             /\ Broadcast(c)
     /\ UNCHANGED <<position, isPlaying, memberVars>>
     /\ LockedFrame

\* hub.go:516
handleQueueRemove(c) ==
  \/ \E p \in QueuePositions, bad \in BOOLEAN :
       Authorised(c, Command("queue_remove", IF bad THEN 0 ELSE p, 0, bad),
                  "only the remote holder can modify the queue",
                  "invalid queue_remove payload", "locked")
  \/ /\ Locked(c, "queue_remove")
     /\ LET s == ref[c]
            p == cmd[c].a
        IN
        IF p < 0 \/ p >= Len(queue[s])
        THEN /\ RejectLocked(c, "invalid queue position")
             /\ UNCHANGED <<queue, currentIndex>>
        ELSE IF p = currentIndex[s]
        THEN /\ RejectLocked(c, "cannot remove the currently playing track")
             /\ UNCHANGED <<queue, currentIndex>>
        ELSE /\ queue' = [queue EXCEPT ![s] = RemoveAt(@, p)]
             /\ currentIndex' = [currentIndex EXCEPT ![s] = IF p < @ THEN @ - 1 ELSE @]
             /\ Broadcast(c)
     /\ UNCHANGED <<tracks, position, isPlaying, memberVars>>
     /\ LockedFrame

\* an adjustment that misses a move onto the current position
ReorderIndexStrict(cur, from, to) ==
  IF from = cur THEN to
  ELSE IF from < cur /\ to > cur THEN cur - 1
  ELSE IF from > cur /\ to < cur THEN cur + 1
  ELSE cur

\* hub.go:584-590
ReorderIndex(cur, from, to) ==
  IF from = cur THEN to
  ELSE IF from < cur /\ to >= cur THEN cur - 1
  ELSE IF from > cur /\ to <= cur THEN cur + 1
  ELSE cur

\* hub.go:551
handleQueueReorder(c) ==
  \/ \E from \in QueuePositions, to \in QueuePositions, bad \in BOOLEAN :
       Authorised(c, Command("queue_reorder", IF bad THEN 0 ELSE from,
                             IF bad THEN 0 ELSE to, bad),
                  "only the remote holder can modify the queue",
                  "invalid queue_reorder payload", "locked")
  \/ /\ Locked(c, "queue_reorder")
     /\ LET s == ref[c]
            from == cmd[c].a
            to == cmd[c].b
        IN
        IF from < 0 \/ from >= Len(queue[s]) \/ to < 0 \/ to >= Len(queue[s])
        THEN /\ RejectLocked(c, "invalid queue positions")
             /\ UNCHANGED <<queue, currentIndex>>
        ELSE /\ queue' = [queue EXCEPT ![s] =
                            InsertAt(RemoveAt(@, from), to, @[from + 1])]
             /\ currentIndex' = [currentIndex EXCEPT ![s] = ReorderIndex(@, from, to)]
             /\ Broadcast(c)
     /\ UNCHANGED <<tracks, position, isPlaying, memberVars>>
     /\ LockedFrame

\* hub.go:596
handleEndSession(c) ==
  \/ Authorised(c, Command("end_session", 0, 0, FALSE),
                "only the remote holder can end the session", "", "end_snap")
  \/ /\ pc[c] = "end_snap"                         \* hub.go:602-607
     /\ msg' = [msg EXCEPT ![c] = <<EndMsg>>]
     /\ todo' = [todo EXCEPT ![c] = participants[ref[c]]]
     /\ Goto(c, "end_send")
     /\ UNCHANGED <<playVars, memberVars, cmd, sendCh, sessions, dbRow, dbTracks, nSess,
                    timerVars, ended, partVars, run, view, chClosed, connVars, ref, lv, ncmds, panicked>>
  \/ /\ pc[c] = "end_send"                         \* hub.go:614-620
     /\ IF \E p \in todo[c] : chClosed[p]
        THEN /\ \E D \in SUBSET {p \in todo[c] : ~chClosed[p]} :
                  /\ sendCh' = Deliver(D, msg[c])
                  /\ connClosed' = [p \in Conns |-> connClosed[p] \/ p \in D]
             /\ Panic(c)
        ELSE /\ sendCh' = Deliver(todo[c], msg[c])
             /\ connClosed' = [p \in Conns |-> connClosed[p] \/ p \in todo[c]]
             /\ msg' = [msg EXCEPT ![c] = <<>>]
             /\ todo' = [todo EXCEPT ![c] = {}]
             /\ Goto(c, "end_remove")
             /\ UNCHANGED <<cmd, panicked>>
     /\ UNCHANGED <<playVars, memberVars, hubVars, timerVars, ended, partVars, run, view, chClosed,
                    wp, ref, lv, ncmds>>
  \/ /\ pc[c] = "end_remove"                       \* hub.go:622
     /\ removeSession
     /\ ended' = [ended EXCEPT ![ref[c]] = TRUE]
     /\ Goto(c, "reading")
     /\ cmd' = [cmd EXCEPT ![c] = NoCmd]
     /\ UNCHANGED <<playVars, memberVars, sendCh, dbRow, dbTracks, nSess, timerVars,
                    partVars, run, view, chClosed, connVars, ref, msg, todo, lv, ncmds, panicked>>

\* hub.go:297: an action HandleMessage does not know
handleUnknown(c) ==
  /\ Read(c, Command("bogus", 0, 0, FALSE))
  /\ Reject(c, "unknown action: bogus")
  /\ UNCHANGED <<msg, todo>>
  /\ EntryFrame

\* values of WSMessage.Type (hub.go:27) other than "command"
OtherTypes == {"state"}

\* HandleMessage (hub.go:269-274) given a message whose Type is not
\* "command": the switch looks at msg.Action alone
HandleMessageOfType(c) ==
  \E t \in OtherTypes, action \in {"play", "pause"} :
    Authorised(c, [Command(action, 0, 0, FALSE) EXCEPT !.type = t],
               "only the remote holder can control playback", "", "locked")

\* json.Unmarshal of a payload that is an object without the handler's key
\* (hub.go:338, 529, 565): no error, and the field keeps Go's zero value
HandleMessageNoField(c) ==
  \/ Authorised(c, [Command("seek", 0, 0, FALSE) EXCEPT !.missing = TRUE],
                "only the remote holder can control playback",
                "invalid seek payload", "locked")
  \/ Authorised(c, [Command("queue_remove", 0, 0, FALSE) EXCEPT !.missing = TRUE],
                "only the remote holder can modify the queue",
                "invalid queue_remove payload", "locked")

\* ---- the lock operations and sends of every call, each named by its line
\* ---- of hub.go and listed in the order the call runs them
HubLocks == {116, 168}
HubRLocks == {161}
HubUnlocks == {117, 162, 169}
MuLocks == {180, 211, 234, 236, 313, 324, 342, 353, 367, 392, 412, 464, 507, 529, 565}
MuRLocks == {303, 424, 602, 629, 665, 696, 742}
MuUnlocks == {181, 215, 230, 238, 244, 315, 326, 344, 358, 372, 397, 414, 419, 466, 471,
              511, 531, 537, 546, 567, 591}
MuRUnlocks == {304, 427, 607, 647, 678, 706, 771}
Sends == {447, 616, 657, 688, 719, 735, 782, 793, 804, 818}

CreateSessionOps == <<116, 117>>
GetSessionOps == <<161, 162>>
removeSessionOps == <<168, 169>>
JoinOps == <<180, 181>>
isRemoteHolderOps == <<303, 304>>
sendErrorOps == <<735>>
\* a broadcastState that defers its RUnlock to the return
broadcastStateDeferred == <<629, 657, 647>>
broadcastStateOps == <<629, 647, 657>>
broadcastParticipantsOps == <<665, 678, 688>>
broadcastRemoteOps == <<696, 706, 719>>
SendWelcomeOps == <<742, 771, 782, 793, 804, 818>>

\* Leave: not a participant; the last one (arms the timer); others remain
LeaveOps ==
  {<<211, 215>>, <<211, 230, 234, 244>>,
   <<211, 230>> \o broadcastParticipantsOps \o broadcastRemoteOps}

\* the grace timer's callback (hub.go:235-243), with and without the removal
timerOps == {<<236, 238>>, <<236, 238>> \o removeSessionOps}

\* the holder-only handlers: refused (not the holder, bad payload, track not
\* found), refused under the write lock, and carried out
RefusedOps == isRemoteHolderOps \o sendErrorOps
ChangesOps(lock, unlock, after) == isRemoteHolderOps \o <<lock, unlock>> \o after

HandleMessageOps ==
  {sendErrorOps, RefusedOps, isRemoteHolderOps,
   ChangesOps(313, 315, broadcastStateOps), ChangesOps(324, 326, broadcastStateOps),
   ChangesOps(342, 344, broadcastStateOps), ChangesOps(353, 358, broadcastStateOps),
   ChangesOps(367, 372, broadcastStateOps), ChangesOps(392, 397, <<>>),
   ChangesOps(412, 414, sendErrorOps), ChangesOps(412, 419, broadcastRemoteOps),
   <<424, 427>>, <<424, 427, 447>>,
   ChangesOps(464, 466, sendErrorOps), ChangesOps(464, 471, broadcastRemoteOps),
   ChangesOps(507, 511, broadcastStateOps),
   ChangesOps(529, 531, sendErrorOps), ChangesOps(529, 537, sendErrorOps),
   ChangesOps(529, 546, broadcastStateOps),
   ChangesOps(565, 567, sendErrorOps), ChangesOps(565, 591, broadcastStateOps),
   isRemoteHolderOps \o <<602, 607, 616>> \o removeSessionOps}

\* Router.handleWebSocket up to ReadPump (router.go:250-274)
handleWebSocketOps ==
  {GetSessionOps \o created \o JoinOps \o SendWelcomeOps
     \o broadcastParticipantsOps \o broadcastRemoteOps :
   created \in {<<>>, CreateSessionOps}}

Calls ==
  {CreateSessionOps, removeSessionOps} \cup handleWebSocketOps \cup LeaveOps
    \cup timerOps \cup HandleMessageOps

\* the locks a goroutine holds after one more operation: "" none, "r" read, "w" write
Apply(h, line) ==
  CASE line \in HubLocks -> [h EXCEPT !.hub = "w"]
    [] line \in HubRLocks -> [h EXCEPT !.hub = "r"]
    [] line \in HubUnlocks -> [h EXCEPT !.hub = ""]
    [] line \in MuLocks -> [h EXCEPT !.mu = "w"]
    [] line \in MuRLocks -> [h EXCEPT !.mu = "r"]
    [] line \in MuUnlocks \cup MuRUnlocks -> [h EXCEPT !.mu = ""]
    [] OTHER -> h

RECURSIVE HeldAfter(_, _)
HeldAfter(path, n) ==
  IF n = 0 THEN [hub |-> "", mu |-> ""] ELSE Apply(HeldAfter(path, n - 1), path[n])

Held(c) == HeldAfter(run[c].path, run[c].at)

\* the operation goroutine c runs next, 0 when its call has returned
NextOp(c) ==
  IF run[c].at < Len(run[c].path) THEN run[c].path[run[c].at + 1] ELSE 0

Advance(c) ==
  /\ run' = [run EXCEPT ![c].at = @ + 1]
  /\ UNCHANGED <<hubVars, playVars, memberVars, timerVars, ended, partVars, chanVars,
                 connVars, pc, localVars, ncmds, panicked, view>>

\* a goroutine enters one of the calls
Call(c) ==
  /\ NextOp(c) = 0
  /\ \E path \in Calls : run' = [run EXCEPT ![c] = [path |-> path, at |-> 0]]
  /\ UNCHANGED <<hubVars, playVars, memberVars, timerVars, ended, partVars, chanVars,
                 connVars, pc, localVars, ncmds, panicked, view>>

\* sync.RWMutex: Lock waits for every holder, RLock for the writer
Acquire(c) ==
  /\ \/ NextOp(c) \in HubLocks /\ \A d \in Conns \ {c} : Held(d).hub = ""
     \/ NextOp(c) \in HubRLocks /\ \A d \in Conns \ {c} : Held(d).hub # "w"
     \/ NextOp(c) \in MuLocks /\ \A d \in Conns \ {c} : Held(d).mu = ""
     \/ NextOp(c) \in MuRLocks /\ \A d \in Conns \ {c} : Held(d).mu # "w"
  /\ Advance(c)

Release(c) ==
  /\ NextOp(c) \in HubUnlocks \cup MuUnlocks \cup MuRUnlocks
  /\ Advance(c)

\* the select on p.sendCh; what it enqueues is Send's and sendError's matter
Enqueue(c) ==
  /\ NextOp(c) \in Sends
  /\ Advance(c)

\* ---- the client
\* JavaScript's x || d for a number, a boolean and an array
OrNumber(x, d) == IF x = 0 THEN d ELSE x
OrBoolean(x, d) == IF x THEN x ELSE d
OrArray(x, d) == x

\* a client that keeps its own position while it goes on playing
onStateKeepingTime(v, state) ==
  [queue |-> OrArray(state.queue, <<>>),
   currentTrackIndex |-> OrNumber(state.currentTrackIndex, 0),
   position |-> IF v.isPlaying /\ state.isPlaying THEN v.position
                ELSE OrNumber(state.position, 0),
   isPlaying |-> OrBoolean(state.isPlaying, FALSE)]

\* ws.onState (ListenTogetherPlayer.jsx:210-215): the player v after the
\* payload of a state message
onState(v, state) ==
  [queue |-> OrArray(state.queue, <<>>),
   currentTrackIndex |-> OrNumber(state.currentTrackIndex, 0),
   position |-> OrNumber(state.position, 0),
   isPlaying |-> OrBoolean(state.isPlaying, FALSE)]

\* WritePump writes the next message (hub.go:861-869) and the client's
\* _handleMessage dispatches it (ListenTogetherWebSocket.js:128-147)
onmessage(c) ==
  /\ wp[c] = "on"
  /\ sendCh[c] # <<>>
  /\ sendCh' = [sendCh EXCEPT ![c] = Tail(@)]
  /\ view' = [view EXCEPT ![c] = IF Head(sendCh[c]).type = "state"
                                  THEN onState(@, Head(sendCh[c])) ELSE @]
  /\ UNCHANGED <<hubVars, playVars, memberVars, timerVars, ended, partVars, run, chClosed,
                 connVars, pc, localVars, ncmds, panicked>>

\* ---- next-state relations
Connect(c) == wsGetSession(c) \/ wsCreateSession(c) \/ Join(c) \/ SendWelcome(c)
Depart(c) == ReadError(c) \/ Leave(c) \/ LeaveArm(c)
Pump(c) == WritePumpWrite(c) \/ WritePumpExit(c)
Timers == \E s \in Sess : TimerFire(s) \/ TimerRemove(s)
Notify(c) == broadcastParticipants(c) \/ broadcastRemote(c) \/ Send(c)
RemoteCommands(c) ==
  \/ handlePassRemote(c) \/ handleAcceptRemoteRequest(c)
  \/ handleRequestRemote(c) \/ handleEndSession(c)
PlayCommands(c) ==
  \/ handlePlay(c) \/ handlePause(c) \/ handleSeek(c)
  \/ handleSkipNext(c) \/ handleSkipPrev(c) \/ handleSync(c)
QueueCommands(c) ==
  \/ handleQueueAdd(c) \/ handleQueueRemove(c) \/ handleQueueReorder(c)

\* everything the hub does
Next ==
  \/ handleSessionPage
  \/ deleteSession
  \/ Timers
  \/ \E c \in Conns :
       \/ Connect(c) \/ Notify(c) \/ broadcastState(c) \/ Depart(c) \/ Pump(c)
       \/ RemoteCommands(c) \/ PlayCommands(c) \/ QueueCommands(c)
       \/ handleUnknown(c)

Spec == Init /\ [][Next]_vars

\* The scenarios below run parts of Next.  Where connections come and go the
\* clients read promptly: a started WritePump writes its queue out before the
\* hub takes its next step.  No queue then reaches sendChannelSize, so no
\* send is dropped and when a message is written changes nothing else.
PumpReady == \E c \in Conns : wp[c] = "on" /\ sendCh[c] # <<>>
Prompt(A) == ~PumpReady /\ A

InitJoin == Start(Joiners, {[i \in 1..MaxTracks |-> i]})

\* membership and the remote: connections join, leave, pass the remote and
\* end the session
NextRemote ==
  \E c \in Conns :
    \/ WritePumpWrite(c)
    \/ Prompt(wsGetSession(c)) \/ Prompt(wsCreateSession(c))
    \/ Prompt(Join(c)) \/ Prompt(SendWelcome(c))
    \/ Prompt(broadcastParticipants(c)) \/ Prompt(broadcastRemote(c))
    \/ Prompt(Send(c))
    \/ Prompt(ReadError(c)) \/ Prompt(Leave(c)) \/ Prompt(LeaveArm(c))
    \/ Prompt(handlePassRemote(c)) \/ Prompt(handleAcceptRemoteRequest(c))
    \/ Prompt(handleRequestRemote(c)) \/ Prompt(handleEndSession(c))

SpecRemote == InitJoin /\ [][NextRemote]_vars

\* the registry: the session is created, expires, is deleted and is ended
\* while connections come and go
NextHub ==
  \/ Prompt(handleSessionPage)
  \/ Prompt(deleteSession)
  \/ \E s \in Sess : Prompt(TimerFire(s)) \/ Prompt(TimerRemove(s))
  \/ \E c \in Conns :
       \/ WritePumpWrite(c)
       \/ Prompt(wsGetSession(c)) \/ Prompt(wsCreateSession(c))
       \/ Prompt(Join(c)) \/ Prompt(SendWelcome(c))
       \/ Prompt(broadcastParticipants(c)) \/ Prompt(broadcastRemote(c))
       \/ Prompt(Send(c))
       \/ Prompt(ReadError(c)) \/ Prompt(Leave(c)) \/ Prompt(LeaveArm(c))
       \/ Prompt(handleEndSession(c))

SpecHub == InitJoin /\ [][NextHub]_vars

\* commands in an established session of MaxJoin participants whose send
\* queues were written out or hold a Backlog; nothing is written out meanwhile
InitCmd == Established(MaxJoin, TrackLists, {<<>>, Backlog})

NextCmd ==
  \E c \in Conns :
    \/ PlayCommands(c) \/ QueueCommands(c) \/ RemoteCommands(c) \/ handleUnknown(c)
    \/ broadcastState(c) \/ broadcastRemote(c) \/ Send(c)

SpecCmd == InitCmd /\ [][NextCmd]_vars

\* the participants of an established session of MaxConns leave
InitLeave == Established(MaxConns, {[i \in 1..MaxTracks |-> i]}, {<<>>})

NextLeave == \E c \in Conns : Depart(c) \/ Notify(c)

SpecLeave == InitLeave /\ [][NextLeave]_vars

\* the only participant leaves and then connections arrive while grace timers
\* run
InitRejoin ==
  EstablishedWith(1, {[i \in 1..MaxTracks |-> i]}, {<<>>}, Conns \ {1})

NextRejoin ==
  \/ \E s \in Sess : Prompt(TimerFire(s)) \/ Prompt(TimerRemove(s))
  \/ \E c \in Conns :
       \/ WritePumpWrite(c)
       \/ Prompt(pc[1] = "gone" /\ wsGetSession(c)) \/ Prompt(wsCreateSession(c))
       \/ Prompt(Join(c)) \/ Prompt(SendWelcome(c))
       \/ Prompt(broadcastParticipants(c)) \/ Prompt(broadcastRemote(c))
       \/ Prompt(Send(c))
       \/ Prompt(ReadError(c)) \/ Prompt(Leave(c)) \/ Prompt(LeaveArm(c))

SpecRejoin == InitRejoin /\ [][NextRejoin]_vars

\* the participants of an established session of MaxJoin leave and nobody
\* arrives; a Leave that emptied the session goes on to arm the grace timer,
\* the runtime fires a pending timer and its callback runs to its end
InitExpire == Established(MaxJoin, {[i \in 1..MaxTracks |-> i]}, {<<>>})

NextExpire == Timers \/ \E c \in Conns : Depart(c) \/ Notify(c)

SpecExpire ==
  /\ InitExpire
  /\ [][NextExpire]_vars
  /\ \A c \in Conns : WF_vars(LeaveArm(c))
  /\ \A s \in Sess : WF_vars(TimerFire(s)) /\ WF_vars(TimerRemove(s))

\* connections of an established session of MaxJoin end: reads fail, write
\* pumps give up, the session is ended, and Leave is called again for
\* participants that have left
NextDepart ==
  \E c \in Conns :
    \/ Depart(c) \/ LeaveAgain(c) \/ Notify(c)
    \/ WritePumpExit(c) \/ handleEndSession(c)

SpecDepart == InitExpire /\ [][NextDepart]_vars

\* the session page is loaded and connections arrive while the first
\* participants add tracks and start playback
NextCreate ==
  \/ Prompt(handleSessionPage)
  \/ \E c \in Conns :
       \/ WritePumpWrite(c)
       \/ Prompt(wsGetSession(c)) \/ Prompt(wsCreateSession(c))
       \/ Prompt(Join(c)) \/ Prompt(SendWelcome(c))
       \/ Prompt(broadcastParticipants(c)) \/ Prompt(broadcastRemote(c))
       \/ Prompt(Send(c))
       \/ Prompt(handleQueueAdd(c)) \/ Prompt(handlePlay(c))
       \/ Prompt(broadcastState(c))

SpecCreate == InitJoin /\ [][NextCreate]_vars

\* messages of any Type in an established session: only play, pause and
\* unknown actions are sent
NextType ==
  \E c \in Conns :
    \/ HandleMessageOfType(c) \/ handlePlay(c) \/ handlePause(c) \/ handleUnknown(c)
    \/ broadcastState(c) \/ Send(c)

SpecType == InitCmd /\ [][NextType]_vars

\* seek and queue_remove with whole, malformed and field-less payloads
NextField ==
  \E c \in Conns :
    \/ HandleMessageNoField(c) \/ handleSeek(c) \/ handleQueueRemove(c)
    \/ handleSkipNext(c) \/ broadcastState(c) \/ Send(c)

SpecField == InitCmd /\ [][NextField]_vars

\* MaxJoin goroutines run the calls of the hub side by side, lock by lock
NextLock == \E c \in Joiners : Call(c) \/ Acquire(c) \/ Release(c) \/ Enqueue(c)

SpecLock == InitExpire /\ [][NextLock]_vars

\* play and pause in a session of one participant while a second connection
\* joins and, as host, takes the remote
InitSnap == EstablishedWith(1, {[i \in 1..MaxTracks |-> i]}, {<<>>}, {2})

NextSnap ==
  \E c \in Conns :
    \/ wsGetSession(c) \/ Join(c) \/ SendWelcome(c)
    \/ broadcastParticipants(c) \/ broadcastRemote(c) \/ Send(c)
    \/ handlePlay(c) \/ handlePause(c) \/ broadcastState(c)

SpecSnap == InitSnap /\ [][NextSnap]_vars

\* the clients of an established session apply what the hub sends them
InitClient == Established(MaxJoin, TrackLists, {<<>>})

NextClient ==
  \E c \in Conns :
    \/ handlePlay(c) \/ handlePause(c) \/ handleSeek(c) \/ handleSkipNext(c)
    \/ broadcastState(c) \/ Send(c) \/ onmessage(c)

SpecClient == InitClient /\ [][NextClient]_vars

\* one participant holds the remote of a session whose queue, after
\* queue_adds, has MaxLen entries and whose current entry is any of them
InitReorder ==
  /\ Fresh
  /\ sessions = 1
  /\ dbTracks = [i \in 1..MaxTracks |-> i]
  /\ nSess = 1
  /\ tracks = [s \in Sess |->
                 IF s = 1 THEN [i \in 1..MaxLen |-> IF i <= MaxTracks THEN i ELSE 1]
                 ELSE <<>>]
  /\ queue = [s \in Sess |-> IF s = 1 THEN Iota(MaxLen) ELSE <<>>]
  /\ currentIndex \in [Sess -> 0..(MaxLen - 1)]
  /\ currentIndex[2] = 0
  /\ position = [s \in Sess |-> 0]
  /\ isPlaying = [s \in Sess |-> FALSE]
  /\ IsHost = [c \in Conns |-> c = 1]
  /\ remoteHolder = [s \in Sess |-> IF s = 1 THEN 1 ELSE 0]
  /\ participants = [s \in Sess |-> IF s = 1 THEN {1} ELSE {}]
  /\ JoinedAt = [c \in Conns |-> 0]
  /\ now = 1
  /\ sendCh = [c \in Conns |-> <<>>]
  /\ wp = [c \in Conns |-> IF c = 1 THEN "on" ELSE "off"]
  /\ pc = [c \in Conns |-> IF c = 1 THEN "reading" ELSE "idle"]
  /\ ref = [c \in Conns |-> IF c = 1 THEN 1 ELSE 0]

NextReorder ==
  \E c \in Conns : handleQueueReorder(c) \/ broadcastState(c) \/ Send(c)

SpecReorder == InitReorder /\ [][NextReorder]_vars

\* ---- properties
\* C1: in every reachable state the remote holder of a session is empty
\* exactly when the session has no participants, and is otherwise one of its
\* participants
RemoteHolderIsParticipant ==
  \A s \in Sess :
    IF participants[s] = {} THEN remoteHolder[s] = 0
    ELSE remoteHolder[s] \in participants[s]

\* the holder has passed the remote to another participant
RemotePassed ==
  \E c \in Conns :
    /\ pc[c] = "cmd_br"
    /\ cmd[c].action = "pass_remote"
    /\ cmd[c].a # c
    /\ remoteHolder[ref[c]] = cmd[c].a

\* c handles a command only the remote holder may give
HolderOnly(c) ==
  \/ handlePlay(c) \/ handlePause(c) \/ handleSeek(c)
  \/ handleSkipNext(c) \/ handleSkipPrev(c)
  \/ handlePassRemote(c) \/ handleAcceptRemoteRequest(c)
  \/ handleQueueAdd(c) \/ handleQueueRemove(c) \/ handleQueueReorder(c)
  \/ handleEndSession(c)

\* the step in which c, not holding the remote, has such a command handled
DeniedCommand(c) ==
  pc[c] = "reading" /\ remoteHolder[ref[c]] # c /\ HolderOnly(c)

\* one error message, and nothing else, was appended to c's send queue
OneErrorEnqueued(c) ==
  /\ Len(sendCh'[c]) = Len(sendCh[c]) + 1
  /\ SubSeq(sendCh'[c], 1, Len(sendCh[c])) = sendCh[c]
  /\ sendCh'[c][Len(sendCh'[c])].type = "error"

\* the session state is as it was and nothing went to another participant
DeniedLeavesNoTrace(c) ==
  /\ UNCHANGED <<tracks, queue, currentIndex, position, isPlaying,
                 remoteHolder, participants>>
  /\ \A p \in Conns \ {c} : sendCh'[p] = sendCh[p]

\* C2 as stated: a holder-only command of a participant that does not hold
\* the remote enqueues exactly one error message to the sender, leaves the
\* session state unchanged and enqueues nothing to anybody else
DeniedGetsOneError ==
  [][\A c \in Conns :
       DeniedCommand(c) => OneErrorEnqueued(c) /\ DeniedLeavesNoTrace(c)]_vars

\* C2 amended: the error message is enqueued when the sender's send queue
\* holds fewer than sendChannelSize messages and is dropped when the queue is
\* full; the session state is unchanged and nothing is enqueued to anybody else
DeniedGetsErrorUnlessFull ==
  [][\A c \in Conns :
       DeniedCommand(c) =>
         /\ IF Len(sendCh[c]) < sendChannelSize
            THEN OneErrorEnqueued(c) ELSE sendCh'[c] = sendCh[c]
         /\ DeniedLeavesNoTrace(c)]_vars

\* a participant that does not hold the remote was refused a playback command
DeniedSeen ==
  \E c \in Conns :
    /\ pc[c] = "reading"
    /\ remoteHolder[ref[c]] # c
    /\ sendCh[c] = <<ErrorMsg("only the remote holder can control playback")>>

\* C3: a command changes the playback state, the queue or the remote holder
\* only in a step in which its sender holds the remote
MutationByHolder ==
  [][\A c \in Conns :
       (pc[c] = "locked" /\ <<playVars, remoteHolder>>' # <<playVars, remoteHolder>>)
         => remoteHolder[ref[c]] = c]_vars

\* C4: in every reachable state every entry of a session's queue is an index
\* into its tracks, and no index occurs twice in the queue
QueueIndicesValid ==
  \A s \in Sess :
    /\ \A i \in 1..Len(queue[s]) : queue[s][i] \in 0..(Len(tracks[s]) - 1)
    /\ \A i, j \in 1..Len(queue[s]) : queue[s][i] = queue[s][j] => i = j

\* a track was added to the queue and another entry was removed from it
QueueAddedAndRemoved ==
  \E s \in Sess :
    /\ Len(tracks[s]) > Len(dbTracks)
    /\ Len(queue[s]) < Len(tracks[s])
    /\ queue[s] # <<>>

\* C5: in every reachable state currentIndex is a position of the queue when
\* the queue is not empty, and an empty queue has currentIndex = 0 and is not
\* playing
CurrentIndexWithinQueue ==
  \A s \in Sess :
    IF queue[s] # <<>>
    THEN currentIndex[s] \in 0..(Len(queue[s]) - 1)
    ELSE currentIndex[s] = 0 /\ ~isPlaying[s]

\* C6: when end_session runs its sends, every participant then in the session
\* gets the session_ended message enqueued and its connection closed; and once
\* a session was ended, no session is registered under the ID any more
EndSessionReachesAll ==
  [][/\ \A c \in Conns :
          (pc[c] = "end_send" /\ pc'[c] # "end_send") =>
            \A p \in participants[ref[c]] :
              connClosed'[p] /\ sendCh'[p] = Append(sendCh[p], EndMsg)
     /\ (\E s \in Sess : ended'[s]) => sessions' = 0]_vars

\* C7: when the participant holding the remote leaves and others remain, the
\* remote goes to a remaining participant none of which joined earlier; when
\* another participant leaves, the remote holder stays
LeaveTransfersRemote ==
  [][\A c \in Conns :
       (pc[c] = "leave" /\ pc'[c] \in {"lv_bp", "lv_arm"}) =>
         LET s == ref[c]
             rest == participants[s] \ {c}
         IN IF remoteHolder[s] # c THEN remoteHolder'[s] = remoteHolder[s]
            ELSE rest # {} =>
                   /\ remoteHolder'[s] \in rest
                   /\ \A q \in rest : JoinedAt[remoteHolder'[s]] <= JoinedAt[q]]_vars

\* the holder of the established session was the first to leave, two or more
\* remain and one of them has the remote
HolderLeft ==
  \E c \in Conns :
    /\ pc[c] = "lv_bp"
    /\ c = RemoteAfter(IsHost, MaxConns)
    /\ \A q \in Conns \ {c} : pc[q] = "reading"
    /\ lv[c].remaining >= 2
    /\ remoteHolder[ref[c]] \in participants[ref[c]]

WelcomeBurst == <<"welcome", "state", "participants", "remote">>

\* C8: as long as nothing was taken from a joiner's send queue, the messages
\* in it begin with welcome, state, participants, remote, in this order
WelcomeBurstFirst ==
  \A c \in Conns :
    wp[c] = "off" =>
      \A i \in 1..Len(WelcomeBurst) :
        i <= Len(sendCh[c]) => sendCh[c][i].type = WelcomeBurst[i]

\* C9: Join gives the remote to the joiner when nobody holds it or the joiner
\* is the host, and leaves the remote holder as it is otherwise
JoinAssignsRemote ==
  [][\A c \in Conns :
       (pc[c] = "join" /\ pc'[c] = "welcome") =>
         LET s == ref[c] IN
         IF remoteHolder[s] = 0 \/ IsHost'[c]
         THEN remoteHolder'[s] = c
         ELSE remoteHolder'[s] = remoteHolder[s]]_vars

\* a host has joined and taken the remote from a participant still connected
HostTookRemote ==
  \E c \in Conns, p \in Conns :
    /\ pc[c] = "welcome"
    /\ IsHost[c]
    /\ remoteHolder[ref[c]] = c
    /\ p \in participants[ref[c]] \ {c}
    /\ ~IsHost[p]
    /\ pc[p] = "reading"

\* C10: in every reachable state in which the descriptor was not deleted, a
\* session that has a participant and was not ended by end_session is the one
\* registered in the hub under its ID
LiveSessionRegistered ==
  \A s \in Sess :
    (dbRow /\ participants[s] # {} /\ ~ended[s]) => sessions = s

\* C11: when a connection joins a registered session that has no participant
\* and whose grace timer is pending, the timer is cancelled, the session is
\* registered after the step and no timer callback is left that will remove
\* it, its tracks, queue, currentIndex, position and isPlaying are unchanged,
\* and the joiner's welcome, state, participants and remote messages are then
\* enqueued to it
RejoinKeepsSession ==
  [][\A c \in Conns :
       /\ (/\ pc[c] = "join" /\ pc'[c] = "welcome"
           /\ sessions = ref[c]
           /\ participants[ref[c]] = {}
           /\ graceTimer[ref[c]] = "pending") =>
            /\ graceTimer'[ref[c]] = "nil"
            /\ sessions' = ref[c]
            /\ expiring'[ref[c]] = 0
            /\ UNCHANGED playVars
       /\ (pc[c] = "welcome_send" /\ pc'[c] # "welcome_send") =>
            /\ Len(sendCh'[c]) = Len(sendCh[c]) + Len(WelcomeBurst)
            /\ \A i \in 1..Len(WelcomeBurst) :
                 sendCh'[c][Len(sendCh[c]) + i].type = WelcomeBurst[i]]_vars

\* the last participant has been removed from the registered session
LastLeft == \E s \in Sess : sessions = s /\ participants[s] = {}

\* C12: once the last participant of a session has left and nobody joins, the
\* session is eventually removed from the hub: GetSession finds none
SessionExpires == LastLeft ~> (sessions = 0)

\* everybody left and the grace timer's callback removed the session
ExpiredAfterAllLeft ==
  /\ sessions = 0
  /\ \A c \in 1..MaxJoin : pc[c] = "gone"
  /\ \E s \in Sess : graceTimer[s] = "fired" /\ participants[s] = {}

\* C13: no send queue ever holds more than sendChannelSize messages; when a
\* command's broadcast is sent, a recipient whose queue is full keeps its
\* queue as it is, every other recipient has the message appended, nothing
\* (no error either) goes to anybody else, and the sender's handler returns
SendQueueBounded ==
  [][/\ \A p \in Conns :
          Len(sendCh[p]) <= sendChannelSize /\ Len(sendCh'[p]) <= sendChannelSize
     /\ \A c \in Conns :
          (pc[c] \in CommandSends /\ pc'[c] # pc[c]) =>
            /\ pc'[c] = "reading"
            /\ \A p \in Conns :
                 sendCh'[p] = IF p \in todo[c] /\ Len(sendCh[p]) < sendChannelSize
                              THEN sendCh[p] \o msg[c] ELSE sendCh[p]]_vars

\* a state message was broadcast: it is in one participant's queue, and the
\* other participant's queue was full and still holds its Backlog only
FullQueueSkipped ==
  \E p, q \in Conns :
    /\ {p, q} \subseteq participants[sessions]
    /\ sendCh[p] = Backlog
    /\ sendCh[q] # <<>>
    /\ sendCh[q][Len(sendCh[q])].type = "state"
    /\ \A c \in Conns : pc[c] \in {"reading", "idle"}

\* C14: a queue_remove at a position p of the queue other than currentIndex
\* leaves the old queue without its element at p; for p < currentIndex the
\* new currentIndex is the old one minus 1, for p > currentIndex it is
\* unchanged, and in both cases tracks[queue[currentIndex]] is the same track
\* as before; the handler goes on to broadcast a state message to the
\* participants
QueueRemoveShifts ==
  [][\A c \in Conns :
       LET s == ref[c]
           p == cmd[c].a
           cur == currentIndex[s]
       IN
       /\ (/\ Locked(c, "queue_remove") /\ pc'[c] # "locked"
           /\ p \in 0..(Len(queue[s]) - 1)
           /\ p # cur) =>
            /\ Len(queue'[s]) = Len(queue[s]) - 1
            /\ \A i \in 1..Len(queue'[s]) :
                 queue'[s][i] = queue[s][IF i <= p THEN i ELSE i + 1]
            /\ currentIndex'[s] = IF p < cur THEN cur - 1 ELSE cur
            /\ tracks'[s][queue'[s][currentIndex'[s] + 1] + 1] =
                 tracks[s][queue[s][cur + 1] + 1]
            /\ pc'[c] = "cmd_bs"
       /\ (/\ pc[c] = "cmd_bs" /\ pc'[c] # "cmd_bs"
           /\ cmd[c].action = "queue_remove") =>
            /\ pc'[c] = "cmd_bs_send"
            /\ msg'[c] = <<StateMsg(s, "queue_remove")>>'
            /\ todo'[c] = participants[s]]_vars

\* an entry before the current one was removed from the queue: currentIndex
\* went from 1 to 0
RemovedBeforeCurrent ==
  \E c \in Conns :
    /\ pc[c] = "cmd_bs"
    /\ cmd[c].action = "queue_remove"
    /\ cmd[c].a = 0
    /\ currentIndex[ref[c]] = 0
    /\ queue[ref[c]] = <<1>>

\* the step in which c's queue_remove names a position outside the queue or
\* the current one, or c's queue_reorder names a position outside the queue
InvalidQueueCommand(c) ==
  LET s == ref[c]
      InRange(i) == i \in 0..(Len(queue[s]) - 1)
  IN
  /\ pc[c] = "locked" /\ pc'[c] # "locked"
  /\ \/ cmd[c].action = "queue_remove"
        /\ (~InRange(cmd[c].a) \/ cmd[c].a = currentIndex[s])
     \/ cmd[c].action = "queue_reorder"
        /\ (~InRange(cmd[c].a) \/ ~InRange(cmd[c].b))

\* C15 as stated: such a command enqueues an error to its sender, leaves the
\* session state unchanged and broadcasts nothing
InvalidQueueCommandGetsError ==
  [][\A c \in Conns :
       InvalidQueueCommand(c) =>
         /\ OneErrorEnqueued(c)
         /\ DeniedLeavesNoTrace(c)
         /\ pc'[c] = "reading"]_vars

\* C15 amended: the error is enqueued when the sender's send queue holds
\* fewer than sendChannelSize messages and is dropped when the queue is full;
\* the session state is unchanged and nothing is broadcast
InvalidQueueCommandErrorUnlessFull ==
  [][\A c \in Conns :
       InvalidQueueCommand(c) =>
         /\ IF Len(sendCh[c]) < sendChannelSize
            THEN OneErrorEnqueued(c) ELSE sendCh'[c] = sendCh[c]
         /\ DeniedLeavesNoTrace(c)
         /\ pc'[c] = "reading"]_vars

\* the holder was refused the removal of the current track and an
\* out-of-range position
InvalidRemovalsRefused ==
  \E c \in Conns :
    /\ pc[c] = "reading"
    /\ remoteHolder[ref[c]] = c
    /\ sendCh[c] = <<ErrorMsg("cannot remove the currently playing track"),
                     ErrorMsg("invalid queue position")>>

\* C16: a queue_reorder with from and to inside the queue puts queue[from]
\* at position to and keeps the other entries in their order; currentIndex
\* becomes to when from = currentIndex, currentIndex - 1 when from is before
\* it and to is at or after it, currentIndex + 1 when from is after it and to
\* is at or before it, and is unchanged otherwise
QueueReorderMoves ==
  [][\A c \in Conns :
       LET s == ref[c]
           from == cmd[c].a
           to == cmd[c].b
           cur == currentIndex[s]
           n == Len(queue[s])
       IN
       (/\ Locked(c, "queue_reorder") /\ pc'[c] # "locked"
        /\ from \in 0..(n - 1) /\ to \in 0..(n - 1)) =>
         /\ Len(queue'[s]) = n
         /\ queue'[s][to + 1] = queue[s][from + 1]
         /\ \A i \in 1..(n - 1) :
              queue'[s][IF i <= to THEN i ELSE i + 1] =
                queue[s][IF i <= from THEN i ELSE i + 1]
         /\ currentIndex'[s] =
              CASE from = cur -> to
                [] from < cur /\ to >= cur -> cur - 1
                [] from > cur /\ to <= cur -> cur + 1
                [] OTHER -> cur]_vars

\* the entry after the current one was moved onto the current position:
\* currentIndex went from 0 to 1
MovedOntoCurrent ==
  \E c \in Conns :
    /\ pc[c] = "cmd_bs"
    /\ cmd[c].action = "queue_reorder"
    /\ cmd[c].a = 1 /\ cmd[c].b = 0
    /\ queue[ref[c]] = <<1, 0>>
    /\ currentIndex[ref[c]] = 1

Clamp(x, lo, hi) == IF x < lo THEN lo ELSE IF x > hi THEN hi ELSE x

\* C17: a seek on a session with a current track stores the payload's
\* position clamped to [0, duration of the current track], and the state
\* message then built for the broadcast carries a position in that range
SeekClamped ==
  [][\A c \in Conns :
       LET s == ref[c]
           d == Duration(tracks[s][queue[s][currentIndex[s] + 1] + 1])
       IN
       (/\ pc[c] \in {"locked", "cmd_bs"} /\ pc'[c] # pc[c]
        /\ cmd[c].action = "seek"
        /\ currentIndex[s] \in 0..(Len(queue[s]) - 1)) =>
         IF pc[c] = "locked"
         THEN position'[s] = Clamp(cmd[c].a, 0, d)
         ELSE msg'[c][1].position \in 0..d]_vars

\* C18: no step of a sync command enqueues or prepares a message for
\* anybody or changes isPlaying, queue, tracks, remoteHolder or participants;
\* read from a participant that does not hold the remote it changes nothing
\* else either; the holder's sync stores the payload's position, and its
\* trackIndex as currentIndex when it is a position of the queue, and the
\* handler returns without a broadcast
SyncIsSilent ==
  [][\A c \in Conns :
       handleSync(c) =>
         LET s == ref[c] IN
         /\ UNCHANGED <<sendCh, msg, todo>>
         /\ UNCHANGED <<isPlaying, queue, tracks, remoteHolder, participants>>
         /\ IF pc[c] = "reading"
            THEN /\ UNCHANGED <<position, currentIndex>>
                 /\ remoteHolder[s] # c => UNCHANGED <<pc, cmd>>
            ELSE /\ position'[s] = cmd[c].a
                 /\ currentIndex'[s] =
                      IF cmd[c].b \in 0..(Len(queue[s]) - 1)
                      THEN cmd[c].b ELSE currentIndex[s]
                 /\ pc'[c] = "reading"]_vars

\* the holder's sync moved position and currentIndex and no queue holds a
\* message
SyncStored ==
  /\ sessions # 0
  /\ position[sessions] \in SyncPositions
  /\ currentIndex[sessions] = 1
  /\ \A c \in Conns : pc[c] \in {"reading", "idle"} /\ sendCh[c] = <<>>

\* C19: broadcasts reach every send queue in the order in which their
\* operations changed the session, so once every handler has returned, the
\* last remote message in a participant's send queue names the session's
\* remote holder
LastRemoteIsCurrent ==
  (\A c \in Conns : pc[c] \in {"reading", "idle"}) =>
    \A s \in Sess : \A p \in participants[s] :
      \A i \in 1..Len(sendCh[p]) :
        (/\ sendCh[p][i].type = "remote"
         /\ \A j \in (i + 1)..Len(sendCh[p]) : sendCh[p][j].type # "remote")
          => sendCh[p][i].id = remoteHolder[s]

\* C20: a step that removes a session from the hub leaves every participant
\* of that session, whose ReadPump has not already seen its connection fail,
\* with its connection closed
RemovedSessionClosesAll ==
  [][\A s \in Sess :
       (sessions = s /\ sessions' # s) =>
         \A p \in participants[s] : pc[p] # "leave" => connClosed'[p]]_vars

\* C21: the Leave of a connection's ReadPump removes a participant that is
\* in the session and closes its send queue, which was open; a Leave for a
\* participant that is not in the session changes no session state, prepares
\* no broadcast and arms no timer; and once a connection's ReadPump has
\* returned, its participant is out of the session with its send queue closed
LeavesExactlyOnce ==
  [][\A c \in Conns :
       LET s == ref[c] IN
       /\ (pc[c] = "leave" /\ pc'[c] # "leave") =>
            IF c \in participants[s]
            THEN /\ ~chClosed[c] /\ chClosed'[c]
                 /\ participants'[s] = participants[s] \ {c}
            ELSE /\ pc'[c] = "gone"
                 /\ UNCHANGED <<hubVars, playVars, memberVars, timerVars, chanVars,
                                msg, todo>>
       /\ (pc'[c] = "gone" /\ wp'[c] # "off") =>
            c \notin participants'[s] /\ chClosed'[c]]_vars

\* Leave was called again for a participant that had left, while another
\* participant is still in the session
LeftTwice ==
  \E c \in Conns :
    /\ pc[c] = "leave"
    /\ chClosed[c]
    /\ c \notin participants[ref[c]]
    /\ participants[ref[c]] # {}

\* C22: a CreateSession for an ID under which a live session is registered,
\* from the session page or from a connecting client, registers no new
\* session and leaves the registered one with its tracks, queue,
\* currentIndex, position, isPlaying, participants and remoteHolder as they
\* are, and the client gets the registered session
CreateSessionIdempotent ==
  [][/\ (handleSessionPage /\ sessions # 0) =>
          UNCHANGED <<sessions, nSess, playVars, memberVars>>
     /\ \A c \in Conns :
          (wsCreateSession(c) /\ sessions # 0) =>
            /\ UNCHANGED <<sessions, nSess, playVars, memberVars>>
            /\ ref'[c] = sessions]_vars

\* a client that found no session is about to call CreateSession while a
\* session is registered that has a participant, plays, and holds a track
\* the descriptor does not
CreateOverChangedSession ==
  \E c \in Conns :
    /\ pc[c] = "create"
    /\ sessions # 0
    /\ participants[sessions] # {}
    /\ isPlaying[sessions]
    /\ tracks[sessions] # dbTracks

\* the step in which the holder c's queue_add is turned down before it
\* reaches the session: its payload does not decode or the library has no
\* such track
FailedQueueAdd(c) ==
  pc[c] = "reading" /\ remoteHolder[ref[c]] = c /\ handleQueueAdd(c)

\* a queue_add that found its track appends the track to tracks and the
\* track's index to queue, leaves the rest alone and goes on to broadcast
QueueAddAppends(c) ==
  LET s == ref[c] IN
  (Locked(c, "queue_add") /\ pc'[c] # "locked") =>
    /\ tracks'[s] = Append(tracks[s], cmd[c].a)
    /\ queue'[s] = Append(queue[s], Len(tracks'[s]) - 1)
    /\ UNCHANGED <<currentIndex, position, isPlaying, memberVars>>
    /\ pc'[c] = "cmd_bs"

\* C23 as stated: a queue_add whose lookup succeeds appends one track and
\* its index and broadcasts state; one whose lookup fails enqueues an error
\* to the sender, changes nothing and broadcasts nothing
QueueAddOrError ==
  [][\A c \in Conns :
       /\ QueueAddAppends(c)
       /\ (FailedQueueAdd(c) /\ pc'[c] = "reading") =>
            OneErrorEnqueued(c) /\ DeniedLeavesNoTrace(c)]_vars

\* C23 amended: the error of a failed lookup is enqueued when the sender's
\* send queue holds fewer than sendChannelSize messages and dropped when the
\* queue is full
QueueAddOrErrorUnlessFull ==
  [][\A c \in Conns :
       /\ QueueAddAppends(c)
       /\ (FailedQueueAdd(c) /\ pc'[c] = "reading") =>
            /\ IF Len(sendCh[c]) < sendChannelSize
               THEN OneErrorEnqueued(c) ELSE sendCh'[c] = sendCh[c]
            /\ DeniedLeavesNoTrace(c)]_vars

\* the holder was told that a track was not found and then added one
AddedAfterNotFound ==
  \E c \in Conns :
    /\ pc[c] = "cmd_bs"
    /\ cmd[c].action = "queue_add"
    /\ sendCh[c] = <<ErrorMsg("track not found")>>
    /\ Len(tracks[ref[c]]) = Len(dbTracks) + 1
    /\ Len(queue[ref[c]]) = Len(dbTracks) + 1

\* what a transfer command of c with the given action does: with a target in
\* the session the target becomes the remote holder and the handler goes on
\* to build a remote message for all participants and to send it to each of
\* them; with any other target the remote holder stays and the handler
\* returns without a broadcast
Transfers(c, action) ==
  LET s == ref[c]
      t == cmd[c].a
  IN
  cmd[c].action = action =>
    /\ (pc[c] = "locked" /\ pc'[c] # "locked") =>
         IF t \in participants[s]
         THEN remoteHolder'[s] = t /\ pc'[c] = "cmd_br"
         ELSE /\ pc'[c] = "reading"
              /\ UNCHANGED <<remoteHolder, msg, todo>>
              /\ \A p \in Conns \ {c} : sendCh'[p] = sendCh[p]
    /\ (pc[c] = "cmd_br" /\ pc'[c] # "cmd_br") =>
         /\ pc'[c] = "cmd_br_send"
         /\ msg'[c] = <<RemoteMsg(s)>>
         /\ todo'[c] = participants[s]
    /\ (pc[c] = "cmd_br_send" /\ pc'[c] = "reading") =>
         \A p \in todo[c] :
           sendCh'[p] = IF Len(sendCh[p]) < sendChannelSize
                        THEN Append(sendCh[p], msg[c][1]) ELSE sendCh[p]

\* C24: a pass_remote whose target is a participant makes the target the
\* remote holder and broadcasts a remote message to all participants; with a
\* target that is not a participant the remote holder is unchanged and no
\* remote message is broadcast
PassRemoteTransfers == [][\A c \in Conns : Transfers(c, "pass_remote")]_vars

\* the holder was refused a pass to somebody outside the session and then
\* passed the remote to the other participant: both got the remote message
PassedAfterRefusal ==
  \E c \in Conns : \E p \in Conns \ {c} :
    /\ pc[c] = "reading" /\ pc[p] = "reading"
    /\ remoteHolder[ref[c]] = p
    /\ Len(sendCh[c]) = 2
    /\ sendCh[c][1] = ErrorMsg("participant not found")
    /\ sendCh[c][2].type = "remote" /\ sendCh[c][2].id = p
    /\ sendCh[p] = <<sendCh[c][2]>>

\* what the step that reads a transfer command of c does: from a sender that
\* does not hold the remote, and for a payload that does not decode, an error
\* goes to the sender (unless its send queue is full) and nothing else
\* happens; otherwise the command is taken on and nothing is sent
TransferRead(c) ==
  LET Refused ==
        /\ pc'[c] = "reading"
        /\ IF Len(sendCh[c]) < sendChannelSize
           THEN OneErrorEnqueued(c) ELSE sendCh'[c] = sendCh[c]
        /\ DeniedLeavesNoTrace(c)
  IN
  IF remoteHolder[ref[c]] # c THEN Refused
  ELSE \/ Refused
       \/ /\ pc'[c] = "locked"
          /\ cmd'[c].a \in Targets
          /\ UNCHANGED <<sendCh, remoteHolder, participants, playVars>>

\* C25: accept_remote_request and pass_remote are refused to the same
\* senders with the same kind of message, and taken on they do the same:
\* the target, if it is a participant, becomes the remote holder and a
\* remote message is broadcast, and otherwise the sender gets an error; no
\* earlier request_remote is asked for
AcceptIsPass ==
  [][\A c \in Conns :
       /\ (pc[c] = "reading" /\ handlePassRemote(c)) => TransferRead(c)
       /\ (pc[c] = "reading" /\ handleAcceptRemoteRequest(c)) => TransferRead(c)
       /\ Transfers(c, "pass_remote")
       /\ Transfers(c, "accept_remote_request")]_vars

\* the holder accepted a request of a participant that never sent one:
\* nothing was ever enqueued to the holder, and the other has the remote
AcceptedUnasked ==
  \E c \in Conns :
    /\ pc[c] = "cmd_br"
    /\ cmd[c].action = "accept_remote_request"
    /\ cmd[c].a # c
    /\ remoteHolder[ref[c]] = cmd[c].a
    /\ sendCh[c] = <<>>
    /\ ncmds = 1

\* the session state a request_remote must leave alone
RequestLeavesState ==
  UNCHANGED <<remoteHolder, queue, tracks, currentIndex, position, isPlaying,
              participants>>

\* c's request_remote is read: nothing is enqueued and no state changes;
\* when the remote holder is a participant, one remote_requested message
\* with c's ID and name is made out to it
RequestRead(c) ==
  LET s == ref[c] IN
  (pc[c] = "reading" /\ handleRequestRemote(c)) =>
    /\ RequestLeavesState
    /\ sendCh' = sendCh
    /\ IF remoteHolder[s] \in participants[s]
       THEN /\ pc'[c] = "rr_send"
            /\ todo'[c] = {remoteHolder[s]}
            /\ Len(msg'[c]) = 1
            /\ msg'[c][1].type = "remote_requested"
            /\ msg'[c][1].id = c /\ msg'[c][1].name = Name[c]
       ELSE UNCHANGED <<pc, msg, todo>>

Skips == {"skip_next", "skip_prev"}

PlayNeedsQueue ==
  [][\A c \in Conns :
       LET s == ref[c] IN
       (Locked(c, "play") /\ pc'[c] # "locked") =>
         IF queue[s] = <<>>
         THEN ~isPlaying'[s]
         ELSE isPlaying'[s]]_vars

\* C29: a queue_add that finds the queue empty leaves the session paused:
\* one entry in the queue, currentIndex = 0 and isPlaying false
AddToEmptyPauses ==
  [][\A c \in Conns :
       LET s == ref[c] IN
       (Locked(c, "queue_add") /\ pc'[c] # "locked" /\ queue[s] = <<>>) =>
         /\ Len(queue'[s]) = 1
         /\ currentIndex'[s] = 0
         /\ ~isPlaying'[s]]_vars

\* C30: a participant that leaves without holding the remote causes no remote
\* broadcast: while every other participant of the established session is
\* still connected, only the departure of the remote holder reaches Leave's
\* broadcastRemote
RemoteBroadcastOnlyOnTransfer ==
  \A c \in Conns :
    (/\ pc[c] \in {"lv_br", "lv_br_send"}
     /\ \A q \in Conns \ {c} : pc[q] = "reading") =>
      c = RemoteAfter(IsHost, MaxConns)

\* a step of connection c on a message that is no command
NotACommand(c) ==
  \/ handleUnknown(c)
  \/ cmd[c].type \in OtherTypes /\ pc'[c] # pc[c]

\* C31: a message whose type is not command changes nothing in the session
\* and is never broadcast, whoever sent it; a message with an unknown action
\* changes nothing either and puts an error on its sender's queue when the
\* queue has room
OnlyCommandsAct ==
  [][\A c \in Conns :
       NotACommand(c) =>
         /\ UNCHANGED <<playVars, memberVars>>
         /\ msg'[c] = <<>>
         /\ handleUnknown(c) =>
              sendCh'[c] = TrySend(sendCh[c], ErrorMsg("unknown action: bogus"))]_vars

\* C32: a holder's command whose payload lacks its field leaves the session
\* state as it was, and a holder's seek whose payload is malformed leaves it
\* as it was and puts an error on the sender's queue when there is room
MissingFieldRefused ==
  [][\A c \in Conns :
       /\ (cmd[c].missing /\ pc'[c] # pc[c]) => UNCHANGED <<playVars, memberVars>>
       /\ (pc[c] = "reading" /\ pc'[c] = "reading" /\ isRemoteHolder(c)
              /\ handleSeek(c)) =>
            /\ UNCHANGED <<playVars, memberVars>>
            /\ sendCh'[c] = TrySend(sendCh[c], ErrorMsg("invalid seek payload"))]_vars

\* C33: no goroutine is about to enqueue to a send queue while it holds the
\* session lock, read or write, and none holding the Hub lock holds, takes or
\* waits for the session lock or enqueues, so the two locks are never held
\* together
NoSendUnderLock ==
  \A c \in Joiners :
    /\ NextOp(c) \in Sends => Held(c) = [hub |-> "", mu |-> ""]
    /\ Held(c).hub # "" =>
         /\ Held(c).mu = ""
         /\ NextOp(c) \in HubUnlocks

\* one goroutine is about to enqueue the broadcast it snapshotted while the
\* other holds the session's write lock
SendBesideWriter ==
  \E c \in Joiners, d \in Joiners :
    /\ NextOp(c) = 657
    /\ Held(d).mu = "w"

\* C34: tracks only grows at its end: every step leaves each session's
\* tracks a prefix of what it is afterwards, so an index into tracks keeps
\* denoting the same track
TracksAppendOnly ==
  [][\A s \in Sess :
       /\ Len(tracks'[s]) >= Len(tracks[s])
       /\ \A i \in 1..Len(tracks[s]) : tracks'[s][i] = tracks[s][i]]_vars

\* a queue_remove or queue_reorder went through and was followed by a
\* queue_add: the queue is not the identity any more and tracks has grown
TracksOutliveQueue ==
  \E c \in Conns :
    /\ pc[c] = "cmd_bs"
    /\ cmd[c].action = "queue_add"
    /\ Len(tracks[ref[c]]) = MaxTracks + 1
    /\ Len(queue[ref[c]]) < Len(tracks[ref[c]])

\* C35: the state message broadcast for a command carries the state its
\* mutation left behind: the one for a play says isPlaying, the one for a
\* pause says not isPlaying, whatever ran before the fan-out
BroadcastCarriesMutation ==
  \A c \in Conns :
    \A i \in 1..Len(msg[c]) :
      LET m == msg[c][i] IN
      /\ (m.type = "state" /\ m.action = "play") => m.isPlaying
      /\ (m.type = "state" /\ m.action = "pause") => ~m.isPlaying

\* the players a client can be in
ClientViews ==
  [queue : TrackLists, currentTrackIndex : 0..MaxTracks,
   position : Positions \cup {0}, isPlaying : BOOLEAN]

ReorderKeepsCurrentTrack ==
  [][\A c \in Conns :
       LET s == ref[c]
           n == Len(queue[s])
       IN
       (/\ Locked(c, "queue_reorder") /\ pc'[c] # "locked"
        /\ cmd[c].a \in 0..(n - 1) /\ cmd[c].b \in 0..(n - 1)) =>
         /\ tracks'[s] = tracks[s]
         /\ currentIndex'[s] \in 0..(n - 1)
         /\ queue'[s][currentIndex'[s] + 1] = queue[s][currentIndex[s] + 1]]_vars

\* the first entry was moved to the end across the current one, on a queue
\* an earlier reorder had already permuted
MovedAcrossCurrent ==
  \E c \in Conns :
    /\ pc[c] = "cmd_bs"
    /\ cmd[c].action = "queue_reorder"
    /\ cmd[c].a = 0 /\ cmd[c].b = MaxLen - 1
    /\ currentIndex[ref[c]] = 0
    /\ ncmds = MaxCmds

\* C38: no send is ever made on the send queue of a participant whose Leave
\* has closed it
NoSendOnClosedQueue == ~panicked

\* C39: the removal a grace timer's callback makes takes from the Hub only
\* the session that armed the timer: when another session is registered
\* under the ID by then, it stays registered
TimerRemovesOwnSession ==
  [][\A s \in Sess :
       (TimerRemove(s) /\ sessions # s) => sessions' = sessions]_vars

\* C40: a session's grace timer is pending only while the session has no
\* participant, and no timer armed by an earlier departure is left pending
\* beside it
GraceTimerOnlyWhileEmpty ==
  \A s \in Sess :
    /\ graceTimer[s] = "pending" => participants[s] = {}
    /\ staleTimers[s] = 0

====
